---- MODULE Spec2Model ----
(***************************************************************************)
(* Model of the InfluxDB node: the validators (InfluxDbValidator), the     *)
(* formatters of retention periods, timestamps and query results           *)
(* (InfluxDbFormatter) and the per-item execution loop (InfluxDb.execute)  *)
(* with the operations it routes to.                                       *)
(*                                                                         *)
(* Strings are sequences of one-character strings.  A JavaScript value is  *)
(* a record [t, k, s, n]: t is the result of typeof, k the kind of value,  *)
(* s the characters of a string, n the magnitude of a finite number or the *)
(* epoch milliseconds of a Date.                                           *)
(***************************************************************************)
EXTENDS Integers, Sequences, FiniteSets

VARIABLES
    fn,             \* pure functions: the function applied ("none" before the call)
    arg,            \* pure functions: the input value
    out,            \* pure functions: the outcome of the call
    pc,             \* execute: "idle" (not running), "loop", "returned", "threw"
    resource,       \* execute: getNodeParameter('resource', 0)
    operation,      \* execute: getNodeParameter('operation', 0)
    continueOnFail, \* execute: the host's continueOnFail()
    credentials,    \* execute: the credentials of the node
    itemIndex,      \* execute: the loop variable i, the number of items processed
    params,         \* execute: the parameters the operation of the last item received
    returnData,     \* execute: the output items pushed so far
    thrown,         \* execute: the error execute raised ("" if none)
    requests,       \* the requests that reached the external service, with their item
    patched,        \* execute: the overrides of this.getNodeParameter still installed
    results,        \* formatFluxResults: the rows of the query result
    options,        \* formatFluxResults: the format options; formatTimestamp: the format
    now,            \* the clock: epoch milliseconds that new Date() reads
    engine          \* the engine's fallback Date parser, on the texts that are not ISO

vars == <<fn, arg, out, pc, resource, operation, continueOnFail, credentials,
          itemIndex, params, returnData, thrown, requests, patched,
          results, options, now, engine>>

pureVars == <<fn, arg, out>>
formatVars == <<results, options, now, engine>>
executeVars == <<pc, resource, operation, continueOnFail, credentials,
                 itemIndex, params, returnData, thrown, requests, patched>>

----------------------------------------------------------------------------
(* Bounds *)

MaxNameLen == 3
MaxPeriodLen == 3
LongSlack == 1
MaxItems == 2
MaxRows == 2
MaxPoints == 2
MaxDeviations == 1
MaxUnitCount == 2
MaxResultRows == 2
MaxMagnitude == 2
MaxQueryLen == 3

----------------------------------------------------------------------------
(* Characters and strings *)

LowerSeq == <<"a","b","c","d","e","f","g","h","i","j","k","l","m",
              "n","o","p","q","r","s","t","u","v","w","x","y","z">>
UpperSeq == <<"A","B","C","D","E","F","G","H","I","J","K","L","M",
              "N","O","P","Q","R","S","T","U","V","W","X","Y","Z">>
DigitSeq == <<"0","1","2","3","4","5","6","7","8","9">>

LowerLetters == {LowerSeq[j] : j \in 1..26}
UpperLetters == {UpperSeq[j] : j \in 1..26}
DigitChars == {DigitSeq[j] : j \in 1..10}
WhiteSpace == {" ", "\t", "\n"}

\* String.prototype.toLowerCase, one character
LowerChar(c) == IF c \in UpperLetters
                THEN LowerSeq[CHOOSE j \in 1..26 : UpperSeq[j] = c]
                ELSE c

toLowerCase(s) == [j \in 1..Len(s) |-> LowerChar(s[j])]

\* String.prototype.trim
RECURSIVE TrimLeft(_)
TrimLeft(s) == IF s # <<>> /\ Head(s) \in WhiteSpace THEN TrimLeft(Tail(s)) ELSE s

RECURSIVE TrimRight(_)
TrimRight(s) == IF s # <<>> /\ s[Len(s)] \in WhiteSpace
                THEN TrimRight(SubSeq(s, 1, Len(s) - 1)) ELSE s

trim(s) == TrimRight(TrimLeft(s))

startsWith(s, c) == s # <<>> /\ s[1] = c

DigitValue(c) == (CHOOSE j \in 1..10 : DigitSeq[j] = c) - 1

\* parseInt(digits, 10) on a string of decimal digits
RECURSIVE parseInt(_)
parseInt(s) == IF s = <<>> THEN 0
               ELSE parseInt(SubSeq(s, 1, Len(s) - 1)) * 10 + DigitValue(s[Len(s)])

\* Number-to-string conversion of a non-negative integer (template literal)
RECURSIVE NumberToString(_)
NumberToString(n) == IF n < 10 THEN <<DigitSeq[n + 1]>>
                     ELSE NumberToString(n \div 10) \o <<DigitSeq[(n % 10) + 1]>>

Repeat(c, n) == [j \in 1..n |-> c]

\* All strings over alphabet A of length at most n
StringsUpTo(A, n) == UNION {[1..m -> A] : m \in 0..n}

----------------------------------------------------------------------------
(* JavaScript values *)

Str(s) == [t |-> "string", k |-> "string", s |-> s, n |-> 0]
Num(n) == [t |-> "number", k |-> "finite", s |-> <<>>, n |-> n]
NaNValue == [t |-> "number", k |-> "nan", s |-> <<>>, n |-> 0]
InfinityValue == [t |-> "number", k |-> "inf", s |-> <<>>, n |-> 0]
NegInfinityValue == [t |-> "number", k |-> "neginf", s |-> <<>>, n |-> 0]
Bool(b) == [t |-> "boolean", k |-> IF b THEN "true" ELSE "false", s |-> <<>>, n |-> 0]
Undefined == [t |-> "undefined", k |-> "undefined", s |-> <<>>, n |-> 0]
Null == [t |-> "object", k |-> "null", s |-> <<>>, n |-> 0]
ObjectValue == [t |-> "object", k |-> "object", s |-> <<>>, n |-> 0]
ArrayValue == [t |-> "object", k |-> "array", s |-> <<>>, n |-> 0]
DateValue(ms) == [t |-> "object", k |-> "date", s |-> <<>>, n |-> ms]
InvalidDate == [t |-> "object", k |-> "invaliddate", s |-> <<>>, n |-> 0]

\* ToBoolean: the values for which !v is true
Falsy(v) == \/ v.k \in {"undefined", "null", "nan", "false"}
            \/ v.k = "string" /\ v.s = <<>>
            \/ v.k = "finite" /\ v.n = 0

\* ToString conversion, as applied by RegExp.prototype.test to its argument
JsToString(v) ==
    CASE v.k = "string" -> v.s
      [] v.k = "finite" -> IF v.n < 0 THEN <<"-">> \o NumberToString(0 - v.n)
                           ELSE NumberToString(v.n)
      [] v.k = "nan" -> <<"N","a","N">>
      [] v.k = "inf" -> <<"I","n","f","i","n","i","t","y">>
      [] v.k = "neginf" -> <<"-","I","n","f","i","n","i","t","y">>
      [] v.k = "true" -> <<"t","r","u","e">>
      [] v.k = "false" -> <<"f","a","l","s","e">>
      [] v.k = "undefined" -> <<"u","n","d","e","f","i","n","e","d">>
      [] v.k = "null" -> <<"n","u","l","l">>
      [] v.k = "array" -> <<>>
      [] OTHER -> <<"[","o","b","j","e","c","t","]">>

----------------------------------------------------------------------------
(* InfluxDbValidator *)

\* { valid: true }: the result carries no error key
Valid == [valid |-> TRUE]
\* { valid: false, error: e }
Invalid(e) == [valid |-> FALSE, error |-> e]
\* a call that raised instead of returning
Thrown(e) == [threw |-> e]

NameChars == LowerLetters \cup UpperLetters \cup DigitChars \cup {"_", "-"}

\* the measurement pattern without its anchors: /[a-zA-Z0-9_-]+/
MeasurementRegexUnanchored(s) == \E j \in 1..Len(s) : s[j] \in NameChars

\* /^[a-zA-Z0-9_-]+$/.test(s)
MEASUREMENT_NAME_REGEX(s) == s # <<>> /\ \A j \in 1..Len(s) : s[j] \in NameChars
KEY_NAME_REGEX(s) == s # <<>> /\ \A j \in 1..Len(s) : s[j] \in NameChars
BUCKET_NAME_REGEX(s) == s # <<>> /\ \A j \in 1..Len(s) : s[j] \in NameChars

UnitChars == {"d", "h", "m", "s"}
InfiniteWord == <<"i","n","f","i","n","i","t","e">>

\* /^(\d+[dhms])$/ on s
DigitsThenUnit(s) == /\ Len(s) >= 2
                     /\ \A j \in 1..(Len(s) - 1) : s[j] \in DigitChars
                     /\ s[Len(s)] \in UnitChars

\* the retention pattern without the i flag
RetentionRegexCaseSensitive(s) == DigitsThenUnit(s) \/ s = InfiniteWord

\* /^(\d+[dhms]|infinite)$/i.test(s): the i flag folds the case of every letter
RETENTION_PERIOD_REGEX(s) == DigitsThenUnit(toLowerCase(s)) \/ toLowerCase(s) = InfiniteWord

BucketNameMaxLength == 255

validateMeasurementName(name) ==
    IF Falsy(name) \/ name.t # "string"
    THEN Invalid("Measurement name is required and must be a string")
    ELSE IF ~MEASUREMENT_NAME_REGEX(JsToString(name))
    THEN Invalid("Invalid measurement name. Must contain only alphanumeric characters, hyphens, and underscores.")
    ELSE Valid

\* validateKeyName without the typeof test of its first check
validateKeyNameNoTypeCheck(key) ==
    IF Falsy(key)
    THEN Invalid("Key name is required and must be a string")
    ELSE IF key.t # "string" THEN Thrown("TypeError: key.startsWith is not a function")
    ELSE IF startsWith(key.s, "_")
    THEN Invalid("Key cannot start with underscore (reserved for system use)")
    ELSE IF ~KEY_NAME_REGEX(JsToString(key))
    THEN Invalid("Invalid key name. Must contain only alphanumeric characters, hyphens, and underscores.")
    ELSE Valid

validateKeyName(key) ==
    IF Falsy(key) \/ key.t # "string"
    THEN Invalid("Key name is required and must be a string")
    ELSE IF key.t # "string" THEN Thrown("TypeError: key.startsWith is not a function")
    ELSE IF startsWith(key.s, "_")
    THEN Invalid("Key cannot start with underscore (reserved for system use)")
    ELSE IF ~KEY_NAME_REGEX(JsToString(key))
    THEN Invalid("Invalid key name. Must contain only alphanumeric characters, hyphens, and underscores.")
    ELSE Valid

\* validateBucketName with the length test off by one (>= 255)
validateBucketNameOffByOne(name) ==
    IF Falsy(name) \/ name.t # "string"
    THEN Invalid("Bucket name is required and must be a string")
    ELSE IF name.t = "string" /\ Len(name.s) >= BucketNameMaxLength
    THEN Invalid("Bucket name must be 255 characters or less")
    ELSE IF ~BUCKET_NAME_REGEX(JsToString(name))
    THEN Invalid("Invalid bucket name. Must contain only alphanumeric characters, hyphens, and underscores.")
    ELSE Valid

\* name.length of a non-string primitive or plain object is undefined, and
\* undefined > 255 is false; an array has length 0 here
validateBucketName(name) ==
    IF Falsy(name) \/ name.t # "string"
    THEN Invalid("Bucket name is required and must be a string")
    ELSE IF name.t = "string" /\ Len(name.s) > BucketNameMaxLength
    THEN Invalid("Bucket name must be 255 characters or less")
    ELSE IF ~BUCKET_NAME_REGEX(JsToString(name))
    THEN Invalid("Invalid bucket name. Must contain only alphanumeric characters, hyphens, and underscores.")
    ELSE Valid

validateRetentionPeriod(period) ==
    IF Falsy(period) \/ period.t # "string"
    THEN Invalid("Retention period is required and must be a string")
    ELSE IF ~RETENTION_PERIOD_REGEX(JsToString(period))
    THEN Invalid("Invalid retention period. Must be in format like 30d, 1y, 12h, or infinite.")
    ELSE Valid

Count(s, c) == Cardinality({j \in 1..Len(s) : s[j] = c})

\* validateFluxQuery without the check of the brackets
validateFluxQueryNoBrackets(query) ==
    IF Falsy(query) \/ query.t # "string"
    THEN Invalid("Flux query is required and must be a string")
    ELSE IF query.t # "string" THEN Thrown("TypeError: query.trim is not a function")
    ELSE LET trimmedQuery == trim(query.s) IN
         IF Len(trimmedQuery) = 0
         THEN Invalid("Flux query cannot be empty")
         ELSE IF Count(trimmedQuery, "(") # Count(trimmedQuery, ")")
         THEN Invalid("Unbalanced parentheses in Flux query")
         ELSE Valid

validateFluxQuery(query) ==
    IF Falsy(query) \/ query.t # "string"
    THEN Invalid("Flux query is required and must be a string")
    ELSE IF query.t # "string" THEN Thrown("TypeError: query.trim is not a function")
    ELSE LET trimmedQuery == trim(query.s) IN
         IF Len(trimmedQuery) = 0
         THEN Invalid("Flux query cannot be empty")
         ELSE IF Count(trimmedQuery, "(") # Count(trimmedQuery, ")")
         THEN Invalid("Unbalanced parentheses in Flux query")
         ELSE IF Count(trimmedQuery, "[") # Count(trimmedQuery, "]")
         THEN Invalid("Unbalanced brackets in Flux query")
         ELSE Valid

\* new Date(string).getTime() is NaN or not.  The empty string never parses;
\* a four-digit year is the date-only ISO form and always parses; for any
\* other text the outcome is left to the engine's fallback parser.
DateParseOutcomes(s) ==
    IF s = <<>> THEN {FALSE}
    ELSE IF Len(s) = 4 /\ \A j \in 1..4 : s[j] \in DigitChars THEN {TRUE}
    ELSE {TRUE, FALSE}

\* parses: whether new Date(timestamp) is a valid date (used for strings only)
validateTimestamp(timestamp, parses) ==
    IF timestamp.k \in {"date", "invaliddate"}
    THEN IF timestamp.k = "invaliddate" THEN Invalid("Invalid Date object") ELSE Valid
    ELSE IF timestamp.t = "number"
    THEN IF timestamp.k # "finite" \/ timestamp.n < 0
         THEN Invalid("Timestamp must be a positive finite number")
         ELSE Valid
    ELSE IF timestamp.t = "string"
    THEN IF ~parses THEN Invalid("Invalid timestamp string") ELSE Valid
    ELSE Invalid("Timestamp must be a Date, number, or string")

\* validateFieldValue returning a bare { valid: false } for an unsupported type
validateFieldValueNoError(value) ==
    LET valueType == value.t IN
    IF valueType # "string" /\ valueType # "number" /\ valueType # "boolean"
    THEN [valid |-> FALSE]
    ELSE IF valueType = "number" /\ value.k # "finite"
    THEN Invalid("Numeric field values must be finite")
    ELSE Valid

validateFieldValue(value) ==
    LET valueType == value.t IN
    IF valueType # "string" /\ valueType # "number" /\ valueType # "boolean"
    THEN Invalid("Invalid field value type. Must be string, number, or boolean.")
    ELSE IF valueType = "number" /\ value.k # "finite"
    THEN Invalid("Numeric field values must be finite")
    ELSE Valid

----------------------------------------------------------------------------
(* InfluxDbFormatter: retention periods *)

\* a call that returned value v
Returned(v) == [value |-> v]

\* the multiplier table with the minute entry wrong
SecondsPerUnitWrongMinute(u) ==
    CASE u = "s" -> 1 [] u = "m" -> 1 [] u = "h" -> 3600 [] u = "d" -> 86400

SecondsPerUnit(u) == CASE u = "s" -> 1 [] u = "m" -> 60 [] u = "h" -> 3600 [] u = "d" -> 86400

\* parseRetentionPeriod without the case of infinite retention
parseRetentionPeriodNoInfinite(period) ==
    IF period.t # "string" THEN Thrown("TypeError: period.trim is not a function")
    ELSE LET trimmed == toLowerCase(trim(period.s)) IN
         IF ~DigitsThenUnit(trimmed)
         THEN Thrown("Invalid retention period format")
         ELSE LET value == parseInt(SubSeq(trimmed, 1, Len(trimmed) - 1))
                  unit == trimmed[Len(trimmed)]
              IN Returned(value * SecondsPerUnit(unit))

parseRetentionPeriod(period) ==
    IF period.t # "string" THEN Thrown("TypeError: period.trim is not a function")
    ELSE LET trimmed == toLowerCase(trim(period.s)) IN
         IF trimmed = InfiniteWord THEN Returned(0)
         ELSE IF ~DigitsThenUnit(trimmed)
         THEN Thrown("Invalid retention period format")
         ELSE LET value == parseInt(SubSeq(trimmed, 1, Len(trimmed) - 1))
                  unit == trimmed[Len(trimmed)]
              IN Returned(value * SecondsPerUnit(unit))

\* formatRetentionPeriod trying hours before days
formatRetentionPeriodHoursFirst(seconds) ==
    IF seconds = 0 THEN InfiniteWord
    ELSE IF seconds % 3600 = 0 THEN NumberToString(seconds \div 3600) \o <<"h">>
    ELSE IF seconds % 86400 = 0 THEN NumberToString(seconds \div 86400) \o <<"d">>
    ELSE IF seconds % 60 = 0 THEN NumberToString(seconds \div 60) \o <<"m">>
    ELSE NumberToString(seconds) \o <<"s">>

formatRetentionPeriod(seconds) ==
    IF seconds = 0 THEN InfiniteWord
    ELSE IF seconds % 86400 = 0 THEN NumberToString(seconds \div 86400) \o <<"d">>
    ELSE IF seconds % 3600 = 0 THEN NumberToString(seconds \div 3600) \o <<"h">>
    ELSE IF seconds % 60 = 0 THEN NumberToString(seconds \div 60) \o <<"m">>
    ELSE NumberToString(seconds) \o <<"s">>

----------------------------------------------------------------------------
(* InfluxDbFormatter: timestamps and query results.  A call reads the      *)
(* clock once: now is the same for every new Date() of the call.           *)

MsPerSecond == 1000
MsPerMinute == 60000
MsPerHour == 3600000
MsPerDay == 86400000

\* the decimal digits of n, padded with zeros on the left to width characters
Pad(n, width) == Repeat("0", width - Len(NumberToString(n))) \o NumberToString(n)

\* Date.prototype.toISOString for an instant of January 1970
toISOString(ms) ==
    <<"1", "9", "7", "0", "-", "0", "1", "-">> \o Pad(ms \div MsPerDay + 1, 2) \o <<"T">>
    \o Pad((ms % MsPerDay) \div MsPerHour, 2) \o <<":">>
    \o Pad((ms % MsPerHour) \div MsPerMinute, 2) \o <<":">>
    \o Pad((ms % MsPerMinute) \div MsPerSecond, 2) \o <<".">>
    \o Pad(ms % MsPerSecond, 3) \o <<"Z">>

\* s is the ISO date-time format YYYY-MM-DDTHH:mm:ss.sssZ of an instant of
\* January 1970
IsIsoText(s) ==
    /\ Len(s) = 24
    /\ SubSeq(s, 1, 8) = <<"1", "9", "7", "0", "-", "0", "1", "-">>
    /\ s[11] = "T" /\ s[14] = ":" /\ s[17] = ":" /\ s[20] = "." /\ s[24] = "Z"
    /\ \A j \in {9, 10, 12, 13, 15, 16, 18, 19, 21, 22, 23} : s[j] \in DigitChars
    /\ parseInt(SubSeq(s, 9, 10)) \in 1..31
    /\ parseInt(SubSeq(s, 12, 13)) < 24
    /\ parseInt(SubSeq(s, 15, 16)) < 60
    /\ parseInt(SubSeq(s, 18, 19)) < 60

IsoInstant(s) ==
    (parseInt(SubSeq(s, 9, 10)) - 1) * MsPerDay + parseInt(SubSeq(s, 12, 13)) * MsPerHour
    + parseInt(SubSeq(s, 15, 16)) * MsPerMinute + parseInt(SubSeq(s, 18, 19)) * MsPerSecond
    + parseInt(SubSeq(s, 21, 23))

\* new Date(s) for a string s: the ISO format is parsed as written, the empty
\* string is no date, any other text is left to the engine
NewDate(s) ==
    IF IsIsoText(s) THEN DateValue(IsoInstant(s))
    ELSE IF s \in DOMAIN engine THEN engine[s]
    ELSE InvalidDate

Abs(x) == IF x < 0 THEN 0 - x ELSE x

JustNow == <<"j", "u", "s", "t", " ", "n", "o", "w">>

\* the unit always in the plural
AgoAlwaysPlural(n, unit) == NumberToString(n) \o <<" ">> \o unit \o <<"s">> \o <<" ", "a", "g", "o">>

\* `${n} ${unit}${n > 1 ? 's' : ''} ago`
Ago(n, unit) == NumberToString(n) \o <<" ">> \o unit \o (IF n > 1 THEN <<"s">> ELSE <<>>) \o <<" ", "a", "g", "o">>

\* `in ${n} ${unit}${n > 1 ? 's' : ''}`
InTime(n, unit) == <<"i", "n", " ">> \o NumberToString(n) \o <<" ">> \o unit \o (IF n > 1 THEN <<"s">> ELSE <<>>)

DayWord == <<"d", "a", "y">>
HourWord == <<"h", "o", "u", "r">>
MinuteWord == <<"m", "i", "n", "u", "t", "e">>
SecondWord == <<"s", "e", "c", "o", "n", "d">>

\* date is a Date; the getTime() of an invalid Date is NaN, which fails every
\* comparison
getRelativeTime(date) ==
    IF date.k # "date" THEN JustNow
    ELSE LET diffMs == now - date.n
             diffSec == diffMs \div 1000
             diffMin == diffSec \div 60
             diffHour == diffMin \div 60
             diffDay == diffHour \div 24
         IN
         IF diffMs < 0
         THEN IF Abs(diffDay) > 0 THEN InTime(Abs(diffDay), DayWord)
              ELSE IF Abs(diffHour) > 0 THEN InTime(Abs(diffHour), HourWord)
              ELSE IF Abs(diffMin) > 0 THEN InTime(Abs(diffMin), MinuteWord)
              ELSE InTime(Abs(diffSec), SecondWord)
         ELSE IF diffDay > 0 THEN Ago(diffDay, DayWord)
         ELSE IF diffHour > 0 THEN Ago(diffHour, HourWord)
         ELSE IF diffMin > 0 THEN Ago(diffMin, MinuteWord)
         ELSE IF diffSec > 0 THEN Ago(diffSec, SecondWord)
         ELSE JustNow

IsoFormat == <<"i", "s", "o">>
UnixFormat == <<"u", "n", "i", "x">>
RelativeFormat == <<"r", "e", "l", "a", "t", "i", "v", "e">>

IsDate(v) == v.k \in {"date", "invaliddate"}

\* format is the text of the format; a timestamp that is neither a string nor
\* a Date has none of the Date methods
formatTimestamp(timestamp, format) ==
    LET date == IF timestamp.t = "string" THEN NewDate(timestamp.s) ELSE timestamp IN
    CASE format = IsoFormat ->
            IF date.k = "date" THEN Returned(Str(toISOString(date.n)))
            ELSE IF date.k = "invaliddate" THEN Thrown("RangeError: Invalid time value")
            ELSE Thrown("TypeError: date.toISOString is not a function")
      [] format = UnixFormat ->
            IF date.k = "date" THEN Returned(Num(date.n))
            ELSE IF date.k = "invaliddate" THEN Returned(NaNValue)
            ELSE Thrown("TypeError: date.getTime is not a function")
      [] format = RelativeFormat ->
            IF IsDate(date) THEN Returned(Str(getRelativeTime(date)))
            ELSE Thrown("TypeError: date.getTime is not a function")
      [] OTHER -> Returned(date)

\* a ?? b
Coalesce(a, b) == IF a.k \in {"undefined", "null"} THEN b ELSE a

\* new Date(n) for a number n
DateOfNumber(v) == IF v.k = "finite" THEN DateValue(v.n) ELSE InvalidDate

\* the key is _time and its value is truthy: the entry is formatted
IsTimeEntry(row, key) == key = "_time" /\ ~Falsy(row[key])

\* only table is dropped
MetadataKeysTableOnly == {"table"}

MetadataKeys == {"table", "result"}

\* the row that results.map builds for a row whose timestamp can be formatted
FormatRow(row, timestampFormat) ==
    [key \in DOMAIN row \ MetadataKeys |->
        IF IsTimeEntry(row, key)
        THEN LET formatted == formatTimestamp(row[key], timestampFormat).value IN
             IF formatted.t = "number" THEN DateOfNumber(formatted) ELSE formatted
        ELSE row[key]]

\* formatTimestamp raises on the row
RowThrows(row, timestampFormat) ==
    /\ "_time" \in DOMAIN row /\ IsTimeEntry(row, "_time")
    /\ "threw" \in DOMAIN formatTimestamp(row["_time"], timestampFormat)

\* slice(0, n) keeping the row at index n as well
SliceToInclusive(rows, n) == SubSeq(rows, 1, IF n + 1 < Len(rows) THEN n + 1 ELSE Len(rows))

\* Array.prototype.slice(0, n) for an integer n > 0
SliceTo(rows, n) == SubSeq(rows, 1, IF n < Len(rows) THEN n ELSE Len(rows))

\* opts.given is FALSE when the options argument is left out
formatFluxResults(rows, opts) ==
    LET timestampFormat == Coalesce(opts.timestampFormat, Str(IsoFormat)).s
        limit == Coalesce(opts.limit, Num(0))
        formattedRows == [j \in 1..Len(rows) |-> FormatRow(rows[j], timestampFormat)]
    IN
    IF \E j \in 1..Len(rows) : RowThrows(rows[j], timestampFormat)
    THEN LET first == CHOOSE j \in 1..Len(rows) :
                         /\ RowThrows(rows[j], timestampFormat)
                         /\ \A h \in 1..(j - 1) : ~RowThrows(rows[h], timestampFormat)
         IN Thrown(formatTimestamp(rows[first]["_time"], timestampFormat).threw)
    ELSE IF limit.k = "finite" /\ limit.n > 0
    THEN Returned(SliceTo(formattedRows, limit.n))
    ELSE Returned(formattedRows)

----------------------------------------------------------------------------
(* Operations.  An operation is applied to the parameters p of one item,   *)
(* the credentials creds and the responses sdk of the external service           *)
(* (sdk.found: a lookup finds its target; sdk.failAt: the position of the  *)
(* awaited request the service rejects, 0 for none).  Its outcome lists    *)
(* the requests that reached the service, in order.                        *)

Raise(reqs, msg) == [requests |-> reqs, threw |-> TRUE, error |-> msg, output |-> <<>>]
Return(reqs, json) == [requests |-> reqs, threw |-> FALSE, error |-> "", output |-> json]

Request(api, target, payload) == [api |-> api, target |-> target, payload |-> payload]

\* a || b
OrElse(a, b) == IF Falsy(a) THEN b ELSE a

\* this.getNodeParameter(name, itemIndex, defaultValue) for a parameter whose value is v
getNodeParameter(v, defaultValue) == IF v = Undefined THEN defaultValue ELSE v

\* validation.error ?? fallback
ErrorOr(validation, fallback) == IF "error" \in DOMAIN validation THEN validation.error ELSE fallback

getOrganization(creds) == creds.organization
\* getDefaultBucket ignoring the credentials
getDefaultBucketNone(creds) == Undefined

getDefaultBucket(creds) == creds.defaultBucket

\* Index of the first TRUE entry of flags, 0 when there is none: the entry at
\* which a for...of loop that raises on a bad entry stops
FirstIndex(flags) ==
    IF \E j \in 1..Len(flags) : flags[j]
    THEN CHOOSE j \in 1..Len(flags) : flags[j] /\ \A h \in 1..(j - 1) : ~flags[h]
    ELSE 0

\* WriteApi of the client library: writePoint buffers a point and flushes the
\* buffer as one request once it holds batchSize points; close flushes what
\* is left.  w = [buf, sent]: the buffer and the requests already issued.
NewWriteApi == [buf |-> <<>>, sent |-> <<>>]

\* batchSize is Undefined when the caller leaves the library's default, which no
\* write of this model reaches
WriteApiAdd(w, bucket, batchSize, point) ==
    LET nb == Append(w.buf, point) IN
    IF batchSize # Undefined /\ Len(nb) >= batchSize.n
    THEN [buf |-> <<>>, sent |-> Append(w.sent, Request("write", bucket, nb))]
    ELSE [buf |-> nb, sent |-> w.sent]

WriteApiClose(w, bucket) ==
    IF w.buf = <<>> THEN w
    ELSE [buf |-> <<>>, sent |-> Append(w.sent, Request("write", bucket, w.buf))]

DefaultBatchSize == 5000

\* new Date().toISOString() at the time of the call
NowIso == Str(<<"n","o","w">>)

TagKeyInvalid(e) == ~validateKeyName(Str(e.key)).valid
TagValueNotString(e) == e.value.t # "string"
TagInvalid(e) == TagKeyInvalid(e) \/ TagValueNotString(e)
FieldKeyInvalid(e) == ~validateKeyName(Str(e.key)).valid
FieldValueInvalid(e) == ~validateFieldValue(e.value).valid
FieldInvalid(e) == FieldKeyInvalid(e) \/ FieldValueInvalid(e)

executeWritePoint(p, creds, sdk) ==
    LET measurement == p.measurement
        tags == p.tags
        fields == p.fields
        timestamp == getNodeParameter(p.timestamp, Undefined)
        bucket == OrElse(OrElse(getNodeParameter(p.bucket, Str(<<>>)),
                                getDefaultBucket(creds)), Str(<<>>))
        badTag == FirstIndex([j \in 1..Len(tags) |-> TagInvalid(tags[j])])
        badField == FirstIndex([j \in 1..Len(fields) |-> FieldInvalid(fields[j])])
        point == [measurement |-> measurement.s, tags |-> tags, fields |-> fields,
                  timestamp |-> timestamp]
        w == WriteApiClose(WriteApiAdd(NewWriteApi, bucket.s, Undefined, point), bucket.s)
    IN
    IF Falsy(bucket)
    THEN Raise(<<>>, "Bucket name is required. Provide it as a parameter or set a default bucket in credentials.")
    ELSE IF ~validateBucketName(bucket).valid
    THEN Raise(<<>>, ErrorOr(validateBucketName(bucket), "Invalid bucket name"))
    ELSE IF ~validateMeasurementName(measurement).valid
    THEN Raise(<<>>, ErrorOr(validateMeasurementName(measurement), "Invalid measurement name"))
    ELSE IF badTag # 0
    THEN IF TagKeyInvalid(tags[badTag]) THEN Raise(<<>>, "Invalid tag key")
         ELSE Raise(<<>>, "Tag value must be a string")
    ELSE IF Len(fields) = 0
    THEN Raise(<<>>, "At least one field is required")
    ELSE IF badField # 0
    THEN IF FieldKeyInvalid(fields[badField]) THEN Raise(<<>>, "Invalid field key")
         ELSE Raise(<<>>, "Invalid field value")
    ELSE IF timestamp # Undefined /\ ~validateTimestamp(timestamp, p.parses).valid
    THEN Raise(<<>>, ErrorOr(validateTimestamp(timestamp, p.parses), "Invalid timestamp"))
    ELSE IF sdk.failAt = 1
    THEN Raise(w.sent, "Failed to write point to InfluxDB")
    ELSE Return(w.sent, <<[success |-> TRUE, pointsWritten |-> 1,
                           measurement |-> measurement.s, bucket |-> bucket.s,
                           timestamp |-> IF timestamp = Undefined THEN NowIso
                                         ELSE timestamp]>>)

\* The field setter executeWriteBatch picks by typeof: floatField raises on a
\* number that is not finite; a value that is no number, string or boolean
\* sets no field.
FieldSetterThrows(e) == e.value.t = "number" /\ e.value.k # "finite"
FieldIsSet(e) == e.value.t \in {"number", "string", "boolean"}

\* One pass of the loop body of executeWriteBatch over the points from index j
\* on; w is the write API, st.raised the error that ended the loop ("" if none)
RECURSIVE BatchLoop(_, _, _, _, _)
BatchLoop(pointsData, j, w, bucket, batchSize) ==
    IF j > Len(pointsData) THEN [w |-> w, raised |-> "", pointsWritten |-> j - 1]
    ELSE LET pointData == pointsData[j]
             stop(msg) == [w |-> w, raised |-> msg, pointsWritten |-> j - 1]
         IN
         IF ~validateMeasurementName(pointData.measurement).valid
         THEN stop(validateMeasurementName(pointData.measurement).error)
         ELSE IF Len(pointData.fields) = 0
         THEN stop("At least one field is required")
         ELSE IF \E h \in 1..Len(pointData.fields) : FieldSetterThrows(pointData.fields[h])
         THEN stop("invalid float value")
         ELSE LET point == [measurement |-> pointData.measurement.s,
                            tags |-> pointData.tags,
                            fields |-> SelectSeq(pointData.fields, FieldIsSet),
                            timestamp |-> IF Falsy(pointData.timestamp) THEN Undefined
                                          ELSE pointData.timestamp]
                  \* writePoint drops a point whose line protocol has no field
                  nw == IF point.fields = <<>> THEN w
                        ELSE WriteApiAdd(w, bucket, batchSize, point)
              IN BatchLoop(pointsData, j + 1, nw, bucket, batchSize)

executeWriteBatch(p, creds, sdk) ==
    LET pointsData == getNodeParameter(p.points, [isArray |-> TRUE, elems |-> <<>>])
        batchSize == getNodeParameter(p.batchSize, Num(DefaultBatchSize))
        bucket == OrElse(OrElse(getNodeParameter(p.bucket, Str(<<>>)),
                                getDefaultBucket(creds)), Str(<<>>))
        loop == BatchLoop(pointsData.elems, 1, NewWriteApi, bucket.s, batchSize)
        closed == WriteApiClose(loop.w, bucket.s)
    IN
    IF Falsy(bucket)
    THEN Raise(<<>>, "Bucket name is required. Provide it as a parameter or set a default bucket in credentials.")
    ELSE IF ~validateBucketName(bucket).valid
    THEN Raise(<<>>, ErrorOr(validateBucketName(bucket), "Invalid bucket name"))
    ELSE IF ~pointsData.isArray \/ Len(pointsData.elems) = 0
    THEN Raise(<<>>, "Points array is required and must contain at least one point")
    ELSE IF loop.raised # ""
    THEN Raise(closed.sent, "Failed to write batch to InfluxDB")
    ELSE IF sdk.failAt = 1 /\ loop.w.buf # <<>>
    THEN Raise(closed.sent, "Failed to write batch to InfluxDB")
    ELSE Return(closed.sent, <<[success |-> TRUE, pointsWritten |-> loop.pointsWritten,
                                bucket |-> bucket.s, batchSize |-> batchSize]>>)

\* trimmedProtocol.split('\n').filter((line) => line.trim()).length
RECURSIVE CountLines(_, _)
CountLines(s, lineHasText) ==
    IF s = <<>> THEN IF lineHasText THEN 1 ELSE 0
    ELSE IF Head(s) = "\n"
    THEN (IF lineHasText THEN 1 ELSE 0) + CountLines(Tail(s), FALSE)
    ELSE CountLines(Tail(s), lineHasText \/ Head(s) \notin WhiteSpace)

executeWriteLineProtocol(p, creds, sdk) ==
    LET lineProtocol == p.lineProtocol
        bucket == OrElse(OrElse(getNodeParameter(p.bucket, Str(<<>>)),
                                getDefaultBucket(creds)), Str(<<>>))
        precision == getNodeParameter(p.precision, Str(<<"n","s">>))
        trimmedProtocol == trim(lineProtocol.s)
        w == WriteApiClose(WriteApiAdd(NewWriteApi, bucket.s, Undefined, trimmedProtocol),
                           bucket.s)
    IN
    IF Falsy(bucket)
    THEN Raise(<<>>, "Bucket name is required. Provide it as a parameter or set a default bucket in credentials.")
    ELSE IF ~validateBucketName(bucket).valid
    THEN Raise(<<>>, ErrorOr(validateBucketName(bucket), "Invalid bucket name"))
    ELSE IF Falsy(lineProtocol) \/ lineProtocol.t # "string"
    THEN Raise(<<>>, "Line protocol is required and must be a string")
    ELSE IF Len(trimmedProtocol) = 0
    THEN Raise(<<>>, "Line protocol cannot be empty")
    ELSE IF sdk.failAt = 1
    THEN Raise(w.sent, "Failed to write line protocol to InfluxDB")
    ELSE Return(w.sent, <<[success |-> TRUE,
                           linesWritten |-> CountLines(trimmedProtocol, FALSE),
                           bucket |-> bucket.s, precision |-> precision]>>)

\* formattedResults.map(row => ({json: row, pairedItem})): the rows the service
\* returned, identified by position, cut to the first limit rows when limit > 0
QueryOutput(rows, limit) ==
    LET kept == IF limit.t = "number" /\ limit.k = "finite" /\ limit.n > 0 /\ limit.n < rows
                THEN limit.n ELSE rows
    IN [j \in 1..kept |-> [row |-> j]]

executeFluxQuery(p, creds, sdk) ==
    LET query == p.query
        limit == getNodeParameter(p.limit, Num(0))
        reqs == <<Request("queryRows", <<>>, query.s)>>
    IN
    IF ~validateFluxQuery(query).valid
    THEN Raise(<<>>, ErrorOr(validateFluxQuery(query), "Invalid Flux query"))
    ELSE IF sdk.failAt = 1 THEN Raise(reqs, "Failed to execute Flux query")
    ELSE Return(reqs, QueryOutput(sdk.rows, limit))

\* The Flux text of executeSimpleQuery, as the list of the literal pieces of
\* the template and the interpolated parameter values
Lit(text) == [lit |-> text, val |-> <<>>]
Interp(chars) == [lit |-> "", val |-> chars]

SimpleQueryText(bucket, measurement, start, stop, field, limit) ==
    <<Lit("from(bucket: \""), Interp(bucket.s), Lit("\")\n  |> range(start: "),
      Interp(start.s), Lit(", stop: "), Interp(stop.s),
      Lit(")\n  |> filter(fn: (r) => r._measurement == \""), Interp(measurement.s),
      Lit("\")")>>
    \o (IF ~Falsy(field)
        THEN <<Lit("\n  |> filter(fn: (r) => r._field == \""), Interp(field.s), Lit("\")")>>
        ELSE <<>>)
    \o (IF limit.k = "finite" /\ limit.n > 0
        THEN <<Lit("\n  |> limit(n: "), Interp(NumberToString(limit.n)), Lit(")")>>
        ELSE <<>>)

executeSimpleQuery(p, creds, sdk) ==
    LET bucket == p.bucket
        measurement == p.measurement
        start == getNodeParameter(p.start, Str(<<"-","1","h">>))
        stop == getNodeParameter(p.stop, Str(<<"n","o","w","(",")">>))
        field == getNodeParameter(p.field, Str(<<>>))
        limit == getNodeParameter(p.limit, Num(0))
        reqs == <<Request("queryRows", <<>>,
                          SimpleQueryText(bucket, measurement, start, stop, field, limit))>>
    IN
    IF ~validateBucketName(bucket).valid
    THEN Raise(<<>>, ErrorOr(validateBucketName(bucket), "Invalid bucket name"))
    ELSE IF ~validateMeasurementName(measurement).valid
    THEN Raise(<<>>, ErrorOr(validateMeasurementName(measurement), "Invalid measurement name"))
    ELSE IF sdk.failAt = 1 THEN Raise(reqs, "Failed to execute simple query")
    ELSE Return(reqs, QueryOutput(sdk.rows, limit))

executeDeleteByPredicate(p, creds, sdk) ==
    LET bucket == p.bucket
        start == p.start
        stop == p.stop
        predicate == p.predicate
        reqs == <<Request("postDelete", bucket.s, predicate.s)>>
    IN
    IF ~validateBucketName(bucket).valid
    THEN Raise(<<>>, ErrorOr(validateBucketName(bucket), "Invalid bucket name"))
    ELSE IF Falsy(start) \/ Falsy(stop)
    THEN Raise(<<>>, "Both start and stop times are required")
    ELSE IF Falsy(predicate) \/ predicate.t # "string" \/ Len(trim(predicate.s)) = 0
    THEN Raise(<<>>, "Predicate is required and must be a non-empty string")
    ELSE IF sdk.failAt = 1 THEN Raise(reqs, "Failed to delete data from InfluxDB")
    ELSE Return(reqs, <<[success |-> TRUE, bucket |-> bucket.s, predicate |-> predicate.s]>>)

executeDeleteAll(p, creds, sdk) ==
    LET bucket == p.bucket
        start == p.start
        stop == p.stop
        confirm == getNodeParameter(p.confirm, Bool(FALSE))
        reqs == <<Request("postDelete", bucket.s, <<>>)>>
    IN
    IF Falsy(confirm)
    THEN Raise(<<>>, "Delete all operation requires confirmation. Please check the confirm checkbox.")
    ELSE IF ~validateBucketName(bucket).valid
    THEN Raise(<<>>, ErrorOr(validateBucketName(bucket), "Invalid bucket name"))
    ELSE IF Falsy(start) \/ Falsy(stop)
    THEN Raise(<<>>, "Both start and stop times are required")
    ELSE IF sdk.failAt = 1 THEN Raise(reqs, "Failed to delete all data from InfluxDB")
    ELSE Return(reqs, <<[success |-> TRUE, bucket |-> bucket.s, deletedAll |-> TRUE]>>)

\* Format*Info of the record the service returned, reduced to its name
executeListBuckets(p, creds, sdk) ==
    LET orgName == getOrganization(creds)
        r1 == <<Request("getOrgs", orgName, <<>>)>>
        r2 == Append(r1, Request("getBuckets", orgName, <<>>))
    IN
    IF sdk.failAt = 1 THEN Raise(r1, "Failed to list buckets")
    ELSE IF ~sdk.found THEN Raise(r1, "Failed to list buckets")
    ELSE IF sdk.failAt = 2 THEN Raise(r2, "Failed to list buckets")
    ELSE IF sdk.rows = 0 THEN Return(r2, <<[buckets |-> <<>>, count |-> 0]>>)
    ELSE Return(r2, [j \in 1..sdk.rows |-> [row |-> j]])

executeGetBucket(p, creds, sdk) ==
    LET bucketName == p.bucketName
        r1 == <<Request("getBuckets", bucketName.s, <<>>)>>
    IN
    IF ~validateBucketName(bucketName).valid
    THEN Raise(<<>>, ErrorOr(validateBucketName(bucketName), "Invalid bucket name"))
    ELSE IF sdk.failAt = 1 \/ ~sdk.found THEN Raise(r1, "Failed to get bucket")
    ELSE Return(r1, <<[name |-> bucketName.s]>>)

\* retentionRules: retentionSeconds > 0 ? [{ everySeconds }] : []
RetentionRules(retentionSeconds) ==
    IF retentionSeconds > 0 THEN <<retentionSeconds>> ELSE <<>>

executeCreateBucket(p, creds, sdk) ==
    LET name == p.bucketName
        retentionPeriod == getNodeParameter(p.retentionPeriod, Str(<<"3","0","d">>))
        orgName == getOrganization(creds)
        r1 == <<Request("getOrgs", orgName, <<>>)>>
        parsed == parseRetentionPeriod(retentionPeriod)
        r2 == Append(r1, Request("postBuckets", name.s, RetentionRules(parsed.value)))
    IN
    IF ~validateBucketName(name).valid
    THEN Raise(<<>>, ErrorOr(validateBucketName(name), "Invalid bucket name"))
    ELSE IF ~validateRetentionPeriod(retentionPeriod).valid
    THEN Raise(<<>>, ErrorOr(validateRetentionPeriod(retentionPeriod), "Invalid retention period"))
    ELSE IF sdk.failAt = 1 \/ ~sdk.found THEN Raise(r1, "Failed to create bucket")
    ELSE IF "threw" \in DOMAIN parsed THEN Raise(r1, "Failed to create bucket")
    ELSE IF sdk.failAt = 2 THEN Raise(r2, "Failed to create bucket")
    ELSE Return(r2, <<[name |-> name.s, created |-> TRUE]>>)

executeUpdateBucket(p, creds, sdk) ==
    LET bucketName == p.bucketName
        retentionPeriod == getNodeParameter(p.retentionPeriod, Str(<<>>))
        r1 == <<Request("getBuckets", bucketName.s, <<>>)>>
        parsed == parseRetentionPeriod(retentionPeriod)
        r2 == Append(r1, Request("patchBucketsID", bucketName.s,
                                 IF ~Falsy(retentionPeriod) THEN RetentionRules(parsed.value)
                                 ELSE <<>>))
    IN
    IF ~validateBucketName(bucketName).valid
    THEN Raise(<<>>, ErrorOr(validateBucketName(bucketName), "Invalid bucket name"))
    ELSE IF ~Falsy(retentionPeriod) /\ ~validateRetentionPeriod(retentionPeriod).valid
    THEN Raise(<<>>, ErrorOr(validateRetentionPeriod(retentionPeriod), "Invalid retention period"))
    ELSE IF sdk.failAt = 1 \/ ~sdk.found THEN Raise(r1, "Failed to update bucket")
    ELSE IF ~Falsy(retentionPeriod) /\ "threw" \in DOMAIN parsed
    THEN Raise(r1, "Failed to update bucket")
    ELSE IF sdk.failAt = 2 THEN Raise(r2, "Failed to update bucket")
    ELSE Return(r2, <<[name |-> bucketName.s, updated |-> TRUE]>>)

\* executeDeleteBucket asking for the confirmation only after the lookup
executeDeleteBucketLateConfirm(p, creds, sdk) ==
    LET bucketName == p.bucketName
        confirm == getNodeParameter(p.confirm, Bool(FALSE))
        r1 == <<Request("getBuckets", bucketName.s, <<>>)>>
        r2 == Append(r1, Request("deleteBucketsID", bucketName.s, <<>>))
    IN
    IF ~validateBucketName(bucketName).valid
    THEN Raise(<<>>, ErrorOr(validateBucketName(bucketName), "Invalid bucket name"))
    ELSE IF sdk.failAt = 1 \/ ~sdk.found THEN Raise(r1, "Failed to delete bucket")
    ELSE IF Falsy(confirm)
    THEN Raise(r1, "Delete bucket operation requires confirmation. Please check the confirm checkbox.")
    ELSE IF sdk.failAt = 2 THEN Raise(r2, "Failed to delete bucket")
    ELSE Return(r2, <<[success |-> TRUE, deleted |-> TRUE, bucketName |-> bucketName.s]>>)

executeDeleteBucket(p, creds, sdk) ==
    LET bucketName == p.bucketName
        confirm == getNodeParameter(p.confirm, Bool(FALSE))
        r1 == <<Request("getBuckets", bucketName.s, <<>>)>>
        r2 == Append(r1, Request("deleteBucketsID", bucketName.s, <<>>))
    IN
    IF Falsy(confirm)
    THEN Raise(<<>>, "Delete bucket operation requires confirmation. Please check the confirm checkbox.")
    ELSE IF ~validateBucketName(bucketName).valid
    THEN Raise(<<>>, ErrorOr(validateBucketName(bucketName), "Invalid bucket name"))
    ELSE IF sdk.failAt = 1 \/ ~sdk.found THEN Raise(r1, "Failed to delete bucket")
    ELSE IF sdk.failAt = 2 THEN Raise(r2, "Failed to delete bucket")
    ELSE Return(r2, <<[success |-> TRUE, deleted |-> TRUE, bucketName |-> bucketName.s]>>)

OrgNameMissing(orgName) == Falsy(orgName) \/ orgName.t # "string"

executeListOrganizations(p, creds, sdk) ==
    LET r1 == <<Request("getOrgs", <<>>, <<>>)>> IN
    IF sdk.failAt = 1 THEN Raise(r1, "Failed to list organizations")
    ELSE IF sdk.rows = 0 THEN Return(r1, <<[organizations |-> <<>>, count |-> 0]>>)
    ELSE Return(r1, [j \in 1..sdk.rows |-> [row |-> j]])

executeGetOrganization(p, creds, sdk) ==
    LET orgName == p.organizationName
        r1 == <<Request("getOrgs", orgName.s, <<>>)>>
    IN
    IF OrgNameMissing(orgName) THEN Raise(<<>>, "Organization name is required and must be a string")
    ELSE IF sdk.failAt = 1 \/ ~sdk.found THEN Raise(r1, "Failed to get organization")
    ELSE Return(r1, <<[name |-> orgName.s]>>)

executeCreateOrganization(p, creds, sdk) ==
    LET name == p.organizationName
        r1 == <<Request("postOrgs", name.s, <<>>)>>
    IN
    IF OrgNameMissing(name) THEN Raise(<<>>, "Organization name is required and must be a string")
    ELSE IF sdk.failAt = 1 THEN Raise(r1, "Failed to create organization")
    ELSE Return(r1, <<[name |-> name.s, created |-> TRUE]>>)

executeUpdateOrganization(p, creds, sdk) ==
    LET orgName == p.organizationName
        newName == getNodeParameter(p.newName, Str(<<>>))
        r1 == <<Request("getOrgs", orgName.s, <<>>)>>
        r2 == Append(r1, Request("patchOrgsID", orgName.s, newName.s))
    IN
    IF OrgNameMissing(orgName) THEN Raise(<<>>, "Organization name is required and must be a string")
    ELSE IF sdk.failAt = 1 \/ ~sdk.found THEN Raise(r1, "Failed to update organization")
    ELSE IF sdk.failAt = 2 THEN Raise(r2, "Failed to update organization")
    ELSE Return(r2, <<[name |-> orgName.s, updated |-> TRUE]>>)

executeDeleteOrganization(p, creds, sdk) ==
    LET orgName == p.organizationName
        confirm == getNodeParameter(p.confirm, Bool(FALSE))
        r1 == <<Request("getOrgs", orgName.s, <<>>)>>
        r2 == Append(r1, Request("deleteOrgsID", orgName.s, <<>>))
    IN
    IF Falsy(confirm)
    THEN Raise(<<>>, "Delete organization operation requires confirmation. Please check the confirm checkbox.")
    ELSE IF OrgNameMissing(orgName)
    THEN Raise(<<>>, "Organization name is required and must be a string")
    ELSE IF sdk.failAt = 1 \/ ~sdk.found THEN Raise(r1, "Failed to delete organization")
    ELSE IF sdk.failAt = 2 THEN Raise(r2, "Failed to delete organization")
    ELSE Return(r2, <<[success |-> TRUE, deleted |-> TRUE, organizationName |-> orgName.s]>>)

----------------------------------------------------------------------------
(* InfluxDb.execute: the Write Point branch converts the fixed collections *)

\* Number(v) for the strings of this model: optional white space around an
\* optionally negative decimal integer, the empty string (0), or anything else (NaN)
ToNumber(v) ==
    IF v.t = "number" THEN v
    ELSE IF v.t # "string" THEN NaNValue
    ELSE LET t == trim(v.s) IN
         IF t = <<>> THEN Num(0)
         ELSE IF \A j \in 1..Len(t) : t[j] \in DigitChars THEN Num(parseInt(t))
         ELSE IF Len(t) > 1 /\ t[1] = "-" /\ \A j \in 2..Len(t) : t[j] \in DigitChars
         THEN Num(0 - parseInt(Tail(t)))
         ELSE NaNValue

\* the value stored for a field: booleans and numbers are recognised
ConvertFieldValue(value) ==
    IF value = Str(<<"t","r","u","e">>) THEN Bool(TRUE)
    ELSE IF value = Str(<<"f","a","l","s","e">>) THEN Bool(FALSE)
    ELSE IF ToNumber(value).k # "nan" /\ value # Str(<<>>) THEN ToNumber(value)
    ELSE value

\* obj[key] = value on an object kept as its list of entries
ObjectSet(obj, key, value) ==
    IF \E j \in 1..Len(obj) : obj[j].key = key
    THEN [j \in 1..Len(obj) |-> IF obj[j].key = key THEN [key |-> key, value |-> value]
                                ELSE obj[j]]
    ELSE Append(obj, [key |-> key, value |-> value])

RECURSIVE ConvertTags(_, _)
ConvertTags(coll, tags) ==
    IF coll = <<>> THEN tags
    ELSE ConvertTags(Tail(coll), ObjectSet(tags, JsToString(Head(coll).key), Head(coll).value))

RECURSIVE ConvertFields(_, _)
ConvertFields(coll, fields) ==
    IF coll = <<>> THEN fields
    ELSE ConvertFields(Tail(coll), ObjectSet(fields, JsToString(Head(coll).key),
                                             ConvertFieldValue(Head(coll).value)))

\* What execute reads as collection.tag / collection.field.  With the original
\* accessor it is the host's list.  With an override still installed the
\* accessor returns the plain object of an earlier item: its property of that
\* name is missing (nothing to iterate), a string (iterated by character, each
\* without key and value) or a value that cannot be iterated.
CollectionList(hostList, override, name) ==
    IF patched = <<>> THEN [threw |-> FALSE, list |-> hostList]
    ELSE LET hits == {j \in 1..Len(override) : override[j].key = name} IN
         IF hits = {} THEN [threw |-> FALSE, list |-> <<>>]
         ELSE LET v == override[CHOOSE j \in hits : TRUE].value IN
              IF Falsy(v) THEN [threw |-> FALSE, list |-> <<>>]
              ELSE IF v.t = "string"
              THEN [threw |-> FALSE,
                    list |-> [j \in 1..Len(v.s) |-> [key |-> Undefined, value |-> Undefined]]]
              ELSE [threw |-> TRUE, list |-> <<>>]

----------------------------------------------------------------------------
(* InfluxDb.execute: the loop over the items *)

NoParams == [none |-> TRUE]
NoOptions == [given |-> FALSE, timestampFormat |-> Undefined, limit |-> Undefined]
NoEngine == [x \in {} |-> InvalidDate]
NoResult == [none |-> TRUE]

SdkResponses == [failAt : 0..2, found : BOOLEAN, rows : 0..MaxRows]

\* One iteration of the loop for an operation whose outcome is o: the
\* returned items are pushed, a raised error becomes an error item under
\* continueOnFail and otherwise propagates out of execute.
\* Iterate leaving the loop after the error item of a failed item
IterateStopOnError(p, o, newPatched) ==
    /\ pc = "loop"
    /\ itemIndex < MaxItems
    /\ params' = p
    /\ itemIndex' = itemIndex + 1
    /\ requests' = requests \o [j \in 1..Len(o.requests) |->
                                   [item |-> itemIndex, request |-> o.requests[j]]]
    /\ patched' = newPatched
    /\ IF ~o.threw
       THEN /\ returnData' = returnData \o [j \in 1..Len(o.output) |->
                                 [json |-> o.output[j], pairedItem |-> itemIndex]]
            /\ UNCHANGED <<pc, thrown>>
       ELSE IF continueOnFail
       THEN /\ returnData' = Append(returnData, [json |-> [error |-> o.error],
                                                 pairedItem |-> itemIndex])
            /\ pc' = "threw"
            /\ thrown' = o.error
       ELSE /\ pc' = "threw"
            /\ thrown' = o.error
            /\ UNCHANGED returnData
    /\ UNCHANGED <<fn, arg, out, resource, operation, continueOnFail, credentials>>
    /\ UNCHANGED formatVars

Iterate(p, o, newPatched) ==
    /\ pc = "loop"
    /\ itemIndex < MaxItems
    /\ params' = p
    /\ itemIndex' = itemIndex + 1
    /\ requests' = requests \o [j \in 1..Len(o.requests) |->
                                   [item |-> itemIndex, request |-> o.requests[j]]]
    /\ patched' = newPatched
    /\ IF ~o.threw
       THEN /\ returnData' = returnData \o [j \in 1..Len(o.output) |->
                                 [json |-> o.output[j], pairedItem |-> itemIndex]]
            /\ UNCHANGED <<pc, thrown>>
       ELSE IF continueOnFail
       THEN /\ returnData' = Append(returnData, [json |-> [error |-> o.error],
                                                 pairedItem |-> itemIndex])
            /\ UNCHANGED <<pc, thrown>>
       ELSE /\ pc' = "threw"
            /\ thrown' = o.error
            /\ UNCHANGED returnData
    /\ UNCHANGED <<fn, arg, out, resource, operation, continueOnFail, credentials>>
    /\ UNCHANGED formatVars

Routed(r, op) == resource = r /\ operation = op

(* Parameter values of the items.  The items of an operation are the     *)
(* records over the values below that differ from the operation's valid  *)
(* base item in at most MaxDeviations parameters.                        *)

BucketValues == {Str(<<>>), Str(<<"b">>), Str(<<"b", " ">>)}
MeasurementValues == {Str(<<"m">>), Str(<<"m", "@">>)}
TagCollections == {<<>>,
                   <<[key |-> Str(<<"k">>), value |-> Str(<<"v">>)]>>,
                   <<[key |-> Str(<<"_", "k">>), value |-> Str(<<"v">>)]>>}
FieldCollections == {<<>>,
                     <<[key |-> Str(<<"f">>), value |-> Str(<<"1">>)]>>,
                     <<[key |-> Str(<<"f">>), value |-> Str(<<"x">>)]>>,
                     <<[key |-> Str(<<"f", "@">>), value |-> Str(<<"1">>)]>>}
TimestampValues == {Undefined, Str(<<>>), Str(<<"2", "0", "2", "4">>), Str(<<"x">>)}
GoodPoint == [measurement |-> Str(<<"m">>), tags |-> <<>>,
              fields |-> <<[key |-> <<"f">>, value |-> Num(1)]>>, timestamp |-> Undefined]
PointValues ==
    {[measurement |-> m, tags |-> <<>>, fields |-> f, timestamp |-> Undefined] :
        m \in MeasurementValues,
        f \in {<<>>, <<[key |-> <<"f">>, value |-> Num(1)]>>}}
    \cup {[measurement |-> Str(<<"m">>), tags |-> <<>>,
           fields |-> <<[key |-> <<"f">>, value |-> NaNValue]>>, timestamp |-> Undefined]}
    \cup {[measurement |-> Str(<<"m">>), tags |-> <<>>,
           fields |-> <<[key |-> <<"_", "f">>, value |-> Num(1)]>>, timestamp |-> Undefined]}
PointArrays == {[isArray |-> TRUE, elems |-> e] : e \in StringsUpTo(PointValues, MaxPoints)}
               \cup {[isArray |-> FALSE, elems |-> <<>>]}
BatchSizeValues == {Undefined, Num(1), Num(2)}
LineProtocolValues == {Str(<<>>), Str(<<" ">>), Str(<<"m", " ", "f">>),
                       Str(<<"m", "\n", "\n", "n">>)}
QueryValues == {Str(<<>>), Str(<<" ">>), Str(<<"f", "(", ")">>), Str(<<"f", "(">>),
                Str(<<"f", "[", ")">>)}
LimitValues == {Undefined, Num(0), Num(1)}
TimeValues == {Str(<<>>), Str(<<"-", "1", "h">>)}
FieldFilterValues == {Undefined, Str(<<"f">>)}
\* parameter values carrying Flux syntax
InjectedStart == Str(<<"0", ")">>)
InjectedStop == Str(<<"|", ">">>)
InjectedField == Str(<<"f", "\"">>)
PredicateValues == {Str(<<>>), Str(<<" ">>), Str(<<"p">>)}
ConfirmValues == {Undefined, Bool(FALSE), Bool(TRUE)}
RetentionValues == {Undefined, Str(<<>>), Str(<<"3", "0", "d">>), Str(<<"3", "0", "D">>),
                    Str(<<"1", "y">>), Str(InfiniteWord), Str(<<"3", "0">>)}
OrgNameValues == {Str(<<>>), Str(<<"o">>), Num(5)}
CredentialValues == {[organization |-> <<"o">>, defaultBucket |-> d] :
                        d \in {Undefined, Str(<<"d">>), Str(<<"d", " ">>)}}

Deviations(p, base) == Cardinality({f \in DOMAIN p : p[f] # base[f]})
Near(S, base) == {p \in S : Deviations(p, base) <= MaxDeviations}

WritePointItems ==
    Near([measurement : MeasurementValues, tagsCollection : TagCollections,
          fieldsCollection : FieldCollections, timestamp : TimestampValues,
          bucket : BucketValues],
         [measurement |-> Str(<<"m">>),
          tagsCollection |-> <<[key |-> Str(<<"k">>), value |-> Str(<<"v">>)]>>,
          fieldsCollection |-> <<[key |-> Str(<<"f">>), value |-> Str(<<"1">>)]>>,
          timestamp |-> Undefined, bucket |-> Str(<<"b">>)])
WriteBatchItems ==
    Near([points : PointArrays, batchSize : BatchSizeValues, bucket : BucketValues],
         [points |-> [isArray |-> TRUE, elems |-> <<GoodPoint>>], batchSize |-> Undefined,
          bucket |-> Str(<<"b">>)])
WriteLineProtocolItems ==
    Near([lineProtocol : LineProtocolValues, bucket : BucketValues, precision : {Undefined}],
         [lineProtocol |-> Str(<<"m", " ", "f">>), bucket |-> Str(<<"b">>),
          precision |-> Undefined])
FluxQueryItems ==
    Near([query : QueryValues, limit : LimitValues],
         [query |-> Str(<<"f", "(", ")">>), limit |-> Undefined])
SimpleQueryItems ==
    Near([bucket : BucketValues, measurement : MeasurementValues,
          start : {Undefined, InjectedStart} \cup TimeValues,
          stop : {Undefined, InjectedStop},
          field : FieldFilterValues \cup {InjectedField}, limit : LimitValues],
         [bucket |-> Str(<<"b">>), measurement |-> Str(<<"m">>), start |-> Undefined,
          stop |-> Undefined, field |-> Undefined, limit |-> Undefined])
DeleteByPredicateItems ==
    Near([bucket : BucketValues, start : TimeValues, stop : TimeValues,
          predicate : PredicateValues],
         [bucket |-> Str(<<"b">>), start |-> Str(<<"-", "1", "h">>),
          stop |-> Str(<<"-", "1", "h">>), predicate |-> Str(<<"p">>)])
DeleteAllItems ==
    Near([bucket : BucketValues, start : TimeValues, stop : TimeValues,
          confirm : ConfirmValues],
         [bucket |-> Str(<<"b">>), start |-> Str(<<"-", "1", "h">>),
          stop |-> Str(<<"-", "1", "h">>), confirm |-> Bool(TRUE)])
GetBucketItems == [bucketName : BucketValues]
CreateBucketItems ==
    Near([bucketName : BucketValues, retentionPeriod : RetentionValues],
         [bucketName |-> Str(<<"b">>), retentionPeriod |-> Str(<<"3", "0", "d">>)])
UpdateBucketItems == CreateBucketItems
DeleteBucketItems ==
    Near([bucketName : BucketValues, confirm : ConfirmValues],
         [bucketName |-> Str(<<"b">>), confirm |-> Bool(TRUE)])
GetOrganizationItems == [organizationName : OrgNameValues]
UpdateOrganizationItems ==
    [organizationName : OrgNameValues, newName : {Undefined, Str(<<"n">>)}]
DeleteOrganizationItems ==
    Near([organizationName : OrgNameValues, confirm : ConfirmValues],
         [organizationName |-> Str(<<"o">>), confirm |-> Bool(TRUE)])

Routes == {<<"write", "writePoint">>, <<"write", "writeBatch">>,
           <<"write", "writeLineProtocol">>, <<"write", "other">>,
           <<"query", "fluxQuery">>, <<"query", "simpleQuery">>,
           <<"delete", "deleteByPredicate">>, <<"delete", "deleteAll">>,
           <<"bucket", "list">>, <<"bucket", "get">>, <<"bucket", "create">>,
           <<"bucket", "update">>, <<"bucket", "delete">>,
           <<"organization", "list">>, <<"organization", "get">>,
           <<"organization", "create">>, <<"organization", "update">>,
           <<"organization", "delete">>, <<"other", "other">>}

Sdk(failAts, founds, rowCounts) ==
    {r \in SdkResponses : r.failAt \in failAts /\ r.found \in founds /\ r.rows \in rowCounts}

----------------------------------------------------------------------------
(* Actions: one per branch of the routing in execute *)

WritePoint ==
    /\ Routed("write", "writePoint")
    /\ \E item \in WritePointItems, sdk \in Sdk({0, 1}, {TRUE}, {0}) :
       \E parses \in DateParseOutcomes(item.timestamp.s) :
          LET override == IF patched = <<>> THEN [tags |-> <<>>, fields |-> <<>>]
                          ELSE patched[Len(patched)]
              tagList == CollectionList(item.tagsCollection, override.tags, <<"t", "a", "g">>)
              fieldList == CollectionList(item.fieldsCollection, override.fields,
                                          <<"f", "i", "e", "l", "d">>)
              tags == ConvertTags(tagList.list, <<>>)
              fields == ConvertFields(fieldList.list, <<>>)
              p == [measurement |-> item.measurement, tags |-> tags, fields |-> fields,
                    timestamp |-> item.timestamp, parses |-> parses, bucket |-> item.bucket,
                    tagsCollection |-> item.tagsCollection,
                    fieldsCollection |-> item.fieldsCollection]
              o == executeWritePoint(p, credentials, sdk)
          IN
          IF tagList.threw \/ fieldList.threw
          THEN Iterate(p, Raise(<<>>, "TypeError: collection is not iterable"), patched)
          ELSE Iterate(p, o, IF o.threw THEN Append(patched, [tags |-> tags, fields |-> fields])
                             ELSE patched)

WriteBatch ==
    /\ Routed("write", "writeBatch")
    /\ \E p \in WriteBatchItems, sdk \in Sdk({0, 1}, {TRUE}, {0}) :
          Iterate(p, executeWriteBatch(p, credentials, sdk), patched)

WriteLineProtocol ==
    /\ Routed("write", "writeLineProtocol")
    /\ \E p \in WriteLineProtocolItems, sdk \in Sdk({0, 1}, {TRUE}, {0}) :
          Iterate(p, executeWriteLineProtocol(p, credentials, sdk), patched)

FluxQuery ==
    /\ Routed("query", "fluxQuery")
    /\ \E p \in FluxQueryItems, sdk \in Sdk({0, 1}, {TRUE}, 0..MaxRows) :
          Iterate(p, executeFluxQuery(p, credentials, sdk), patched)

SimpleQuery ==
    /\ Routed("query", "simpleQuery")
    /\ \E p \in SimpleQueryItems, sdk \in Sdk({0, 1}, {TRUE}, 0..MaxRows) :
          Iterate(p, executeSimpleQuery(p, credentials, sdk), patched)

DeleteByPredicate ==
    /\ Routed("delete", "deleteByPredicate")
    /\ \E p \in DeleteByPredicateItems, sdk \in Sdk({0, 1}, {TRUE}, {0}) :
          Iterate(p, executeDeleteByPredicate(p, credentials, sdk), patched)

DeleteAll ==
    /\ Routed("delete", "deleteAll")
    /\ \E p \in DeleteAllItems, sdk \in Sdk({0, 1}, {TRUE}, {0}) :
          Iterate(p, executeDeleteAll(p, credentials, sdk), patched)

ListBuckets ==
    /\ Routed("bucket", "list")
    /\ \E sdk \in Sdk(0..2, BOOLEAN, 0..MaxRows) :
          Iterate(NoParams, executeListBuckets(NoParams, credentials, sdk), patched)

GetBucket ==
    /\ Routed("bucket", "get")
    /\ \E p \in GetBucketItems, sdk \in Sdk({0, 1}, BOOLEAN, {0}) :
          Iterate(p, executeGetBucket(p, credentials, sdk), patched)

CreateBucket ==
    /\ Routed("bucket", "create")
    /\ \E p \in CreateBucketItems, sdk \in Sdk(0..2, BOOLEAN, {0}) :
          Iterate(p, executeCreateBucket(p, credentials, sdk), patched)

UpdateBucket ==
    /\ Routed("bucket", "update")
    /\ \E p \in UpdateBucketItems, sdk \in Sdk(0..2, BOOLEAN, {0}) :
          Iterate(p, executeUpdateBucket(p, credentials, sdk), patched)

DeleteBucket ==
    /\ Routed("bucket", "delete")
    /\ \E p \in DeleteBucketItems, sdk \in Sdk(0..2, BOOLEAN, {0}) :
          Iterate(p, executeDeleteBucket(p, credentials, sdk), patched)

ListOrganizations ==
    /\ Routed("organization", "list")
    /\ \E sdk \in Sdk({0, 1}, {TRUE}, 0..MaxRows) :
          Iterate(NoParams, executeListOrganizations(NoParams, credentials, sdk), patched)

GetOrganization ==
    /\ Routed("organization", "get")
    /\ \E p \in GetOrganizationItems, sdk \in Sdk({0, 1}, BOOLEAN, {0}) :
          Iterate(p, executeGetOrganization(p, credentials, sdk), patched)

CreateOrganization ==
    /\ Routed("organization", "create")
    /\ \E p \in GetOrganizationItems, sdk \in Sdk({0, 1}, {TRUE}, {0}) :
          Iterate(p, executeCreateOrganization(p, credentials, sdk), patched)

UpdateOrganization ==
    /\ Routed("organization", "update")
    /\ \E p \in UpdateOrganizationItems, sdk \in Sdk(0..2, BOOLEAN, {0}) :
          Iterate(p, executeUpdateOrganization(p, credentials, sdk), patched)

DeleteOrganization ==
    /\ Routed("organization", "delete")
    /\ \E p \in DeleteOrganizationItems, sdk \in Sdk(0..2, BOOLEAN, {0}) :
          Iterate(p, executeDeleteOrganization(p, credentials, sdk), patched)

\* a known resource with an operation none of its branches matches: nothing happens
UnroutedOperation ==
    /\ resource \in {"write", "query", "delete", "bucket", "organization"}
    /\ operation = "other"
    /\ Iterate(NoParams, Return(<<>>, <<>>), patched)

UnsupportedResource ==
    /\ resource \notin {"write", "query", "delete", "bucket", "organization"}
    /\ Iterate(NoParams, Raise(<<>>, "The resource is not supported"), patched)

\* the loop has run over all the items: return [returnData]
ExecuteReturn ==
    /\ pc = "loop"
    /\ pc' = "returned"
    /\ UNCHANGED <<fn, arg, out, resource, operation, continueOnFail, credentials,
                   itemIndex, params, returnData, thrown, requests, patched>>
    /\ UNCHANGED formatVars

Init ==
    /\ fn = "none" /\ arg = Undefined /\ out = NoResult
    /\ pc = "loop"
    /\ \E r \in Routes : resource = r[1] /\ operation = r[2]
    /\ continueOnFail \in BOOLEAN
    /\ credentials \in CredentialValues
    /\ resource # "write" => credentials.defaultBucket = Undefined
    /\ itemIndex = 0
    /\ params = NoParams
    /\ returnData = <<>>
    /\ thrown = ""
    /\ requests = <<>>
    /\ patched = <<>>
    /\ results = <<>> /\ options = NoOptions /\ now = 0 /\ engine = NoEngine

Next ==
    \/ WritePoint \/ WriteBatch \/ WriteLineProtocol
    \/ FluxQuery \/ SimpleQuery
    \/ DeleteByPredicate \/ DeleteAll
    \/ ListBuckets \/ GetBucket \/ CreateBucket \/ UpdateBucket \/ DeleteBucket
    \/ ListOrganizations \/ GetOrganization \/ CreateOrganization
    \/ UpdateOrganization \/ DeleteOrganization
    \/ UnroutedOperation \/ UnsupportedResource
    \/ ExecuteReturn

Spec == Init /\ [][Next]_vars

----------------------------------------------------------------------------
(* The validators and formatters as pure functions: a call applies one     *)
(* function to an input value                                              *)

NameAlphabet == {"a", "Z", "7", "_", "-", " ", "@", "."}
PeriodAlphabet == {"3", "0", "d", "h", "m", "s", "D", "y", " "}

NameStrings == StringsUpTo(NameAlphabet, MaxNameLen)
LongNameStrings ==
    {Repeat("a", n) : n \in (BucketNameMaxLength - LongSlack)..(BucketNameMaxLength + LongSlack)}
    \cup {<<"_">> \o Repeat("a", BucketNameMaxLength),
          Repeat("a", BucketNameMaxLength) \o <<"@">>,
          <<"_">> \o Repeat("a", BucketNameMaxLength - 1)}
PeriodStrings ==
    StringsUpTo(PeriodAlphabet, MaxPeriodLen)
    \cup {InfiniteWord, <<"I","N","F","I","N","I","T","E">>, <<"I","n","f","i","n","i","t","e">>,
          <<" ","i","n","f","i","n","i","t","e"," ">>, <<"i","n","f","i","n","i","t">>,
          <<"i","n","f","i","n","i","t","e","3","d">>,
          <<"3","6","5","d">>, <<"3","6","0","0","s">>, <<"0","0","7","h">>,
          <<"3","0","d","a","y","s">>, <<"1"," ","y","e","a","r">>,
          <<"3","0"," ","d","a","y","s">>, <<"1","y">>, <<"3","0">>,
          <<"f","o","r","e","v","e","r">>, <<"b","a","d">>, <<"3","d","\n">>}
QueryAlphabet == {"(", ")", "[", "]", "f", " "}
QueryStrings == StringsUpTo(QueryAlphabet, MaxQueryLen)

\* the queries of the fixture invalidData.invalidQueries
QueryMissingParentheses == <<"f", "r", "o", "m", " ", "b", "u", "c", "k", "e", "t", ":", " ", "\"", "t", "e", "s", "t", "\"">>
QueryUnbalancedParentheses == <<"f", "r", "o", "m", "(", "b", "u", "c", "k", "e", "t", ":", " ", "\"", "t", "e", "s", "t", "\"">>
QueryMismatchedBrackets == <<"f", "r", "o", "m", "(", "b", "u", "c", "k", "e", "t", ":", " ", "\"", "t", "e", "s", "t", "\"", "]">>
invalidQueries ==
    {<<>>, QueryMissingParentheses, QueryUnbalancedParentheses, QueryMismatchedBrackets}

\* the queries of the unit tests of validateFluxQuery
TestQueries ==
    {<<"f", "r", "o", "m", "(", "b", "u", "c", "k", "e", "t", ":", " ", "\"", "t", "e", "s", "t", "\"", ")", " ", "|", ">", " ", "r", "a", "n", "g", "e", "(", "s", "t", "a", "r", "t", ":", " ", "-", "1", "h", ")">>,
     <<"f", "i", "l", "t", "e", "r", "(", "f", "n", ":", " ", "(", "r", ")", " ", "=", ">", " ", "r", ".", "t", "a", "g", "s", "[", "[", "l", "o", "c", "a", "t", "i", "o", "n", "]", ")">>,
     <<" ", " ", " ", "\n", " ", " ", "\t", " ", " ">>}

SecondsValues ==
    {a * 86400 + b * 3600 + c * 60 + d : a, b, c, d \in 0..MaxUnitCount}
    \cup {2592000, 31536000}
OtherValues == {Undefined, Null, Num(0), Num(5), Num(-1), NaNValue, InfinityValue,
                NegInfinityValue, Bool(TRUE), Bool(FALSE), ObjectValue, ArrayValue,
                DateValue(5), InvalidDate}

FunctionInputs ==
    {Str(x) : x \in NameStrings \cup LongNameStrings \cup PeriodStrings \cup QueryStrings
                    \cup invalidQueries \cup TestQueries}
    \cup {Num(n) : n \in SecondsValues} \cup OtherValues

Call(name, result) ==
    /\ pc = "idle"
    /\ fn = "none"
    /\ fn' = name
    /\ out' = result
    /\ UNCHANGED <<arg, pc, resource, operation, continueOnFail, credentials,
                   itemIndex, params, returnData, thrown, requests, patched>>
    /\ UNCHANGED formatVars

CallValidateMeasurementName == Call("validateMeasurementName", validateMeasurementName(arg))
CallValidateKeyName == Call("validateKeyName", validateKeyName(arg))
CallValidateBucketName == Call("validateBucketName", validateBucketName(arg))
CallValidateRetentionPeriod == Call("validateRetentionPeriod", validateRetentionPeriod(arg))
CallValidateFluxQuery == Call("validateFluxQuery", validateFluxQuery(arg))
CallValidateTimestamp ==
    \E parses \in DateParseOutcomes(arg.s) :
        Call("validateTimestamp", validateTimestamp(arg, parses))
CallValidateFieldValue == Call("validateFieldValue", validateFieldValue(arg))
CallParseRetentionPeriod == Call("parseRetentionPeriod", parseRetentionPeriod(arg))
CallFormatRetentionPeriod ==
    /\ arg.k = "finite" /\ arg.n >= 0
    /\ Call("formatRetentionPeriod", Returned(formatRetentionPeriod(arg.n)))

InitFunctions ==
    /\ fn = "none"
    /\ arg \in FunctionInputs
    /\ out = NoResult
    /\ pc = "idle"
    /\ resource = "" /\ operation = ""
    /\ continueOnFail = FALSE
    /\ credentials = [organization |-> <<>>, defaultBucket |-> Undefined]
    /\ itemIndex = 0
    /\ params = NoParams
    /\ returnData = <<>>
    /\ thrown = ""
    /\ requests = <<>>
    /\ patched = <<>>
    /\ results = <<>> /\ options = NoOptions /\ now = 0 /\ engine = NoEngine

NextFunctions ==
    \/ CallValidateMeasurementName \/ CallValidateKeyName \/ CallValidateBucketName
    \/ CallValidateRetentionPeriod \/ CallValidateFluxQuery \/ CallValidateTimestamp
    \/ CallValidateFieldValue
    \/ CallParseRetentionPeriod \/ CallFormatRetentionPeriod

SpecFunctions == InitFunctions /\ [][NextFunctions]_vars

----------------------------------------------------------------------------
(* The timestamp and query-result formatters as pure functions *)

NowValues == {10 * MsPerDay}

\* distances in milliseconds between the clock and a timestamp
Offsets ==
    {0, 1, 999, 30 * MsPerMinute}
    \cup {k * u + e : k \in 1..MaxMagnitude, e \in {-1, 0, 1},
                      u \in {MsPerSecond, MsPerMinute, MsPerHour, MsPerDay}}

UnparseableText == <<"b", "a", "d">>
FallbackTexts == {UnparseableText}
EngineValues == [FallbackTexts -> {InvalidDate, DateValue(0)}]

TimestampInputs(n) ==
    {DateValue(n - d) : d \in Offsets} \cup {DateValue(n + d) : d \in Offsets}
    \cup {Str(toISOString(n - 2 * MsPerHour)), Str(toISOString(n + 30 * MsPerMinute)),
          Str(<<>>), Str(UnparseableText), InvalidDate, Num(5), Undefined, Null}

FormatValues == {Str(IsoFormat), Str(UnixFormat), Str(RelativeFormat)}

RowKeys == {"result", "table", "_time", "_measurement", "_field", "_value", "location"}

\* a row of the query result with the keys ks, whose _time is time
RowOf(ks, time) ==
    [key \in ks |->
        CASE key = "result" -> Str(<<"r">>)
          [] key = "table" -> Num(0)
          [] key = "_time" -> time
          [] key = "_measurement" -> Str(<<"m">>)
          [] key = "_field" -> Str(<<"f">>)
          [] key = "_value" -> Num(0)
          [] key = "location" -> Str(<<"o">>)]

RowTimeValues(n) ==
    {Str(toISOString(n - 2 * MsPerHour)), DateValue(n - 2 * MsPerHour),
     Str(<<>>), Str(UnparseableText), InvalidDate}

RowValues(n) ==
    {RowOf(RowKeys, t) : t \in RowTimeValues(n)}
    \cup {RowOf(RowKeys \ {"_time"}, Undefined), RowOf(MetadataKeys, Undefined),
          RowOf({}, Undefined)}

ResultLists(n) == StringsUpTo(RowValues(n), MaxResultRows)

FormatLimitValues == {Undefined, Num(-1), Num(0)} \cup {Num(k) : k \in 1..(MaxResultRows + 1)}

FormatOptionValues ==
    {NoOptions}
    \cup [given : {TRUE}, timestampFormat : FormatValues \cup {Undefined},
          limit : FormatLimitValues]

CallFormatTimestamp ==
    /\ options.timestampFormat.t = "string"
    /\ Call("formatTimestamp", formatTimestamp(arg, options.timestampFormat.s))

CallGetRelativeTime ==
    /\ IsDate(arg)
    /\ Call("getRelativeTime", Returned(Str(getRelativeTime(arg))))

CallFormatFluxResults == Call("formatFluxResults", formatFluxResults(results, options))

InitFormatters ==
    /\ fn = "none"
    /\ out = NoResult
    /\ pc = "idle"
    /\ resource = "" /\ operation = ""
    /\ continueOnFail = FALSE
    /\ credentials = [organization |-> <<>>, defaultBucket |-> Undefined]
    /\ itemIndex = 0
    /\ params = NoParams
    /\ returnData = <<>>
    /\ thrown = ""
    /\ requests = <<>>
    /\ patched = <<>>
    /\ now \in NowValues
    /\ engine \in EngineValues
    /\ \/ /\ arg \in TimestampInputs(now)
          /\ results = <<>>
          /\ options \in [given : {TRUE}, timestampFormat : FormatValues, limit : {Undefined}]
       \/ /\ arg = Undefined
          /\ results \in ResultLists(now)
          /\ options \in FormatOptionValues

NextFormatters == CallFormatTimestamp \/ CallGetRelativeTime \/ CallFormatFluxResults

SpecFormatters == InitFormatters /\ [][NextFormatters]_vars

----------------------------------------------------------------------------
(* Properties of the validators and formatters (SpecFunctions) *)

ValidatorNames == {"validateMeasurementName", "validateKeyName", "validateBucketName",
                   "validateRetentionPeriod", "validateFluxQuery", "validateTimestamp",
                   "validateFieldValue"}
StringValidatorNames == {"validateMeasurementName", "validateKeyName", "validateBucketName",
                         "validateRetentionPeriod", "validateFluxQuery"}

\* C3: a validation result carries no error when valid is true and a non-empty
\* error string when valid is false
C3_ErrorIffInvalid ==
    (fn \in ValidatorNames /\ "valid" \in DOMAIN out)
    => IF out.valid THEN "error" \notin DOMAIN out
       ELSE "error" \in DOMAIN out /\ out.error # ""

C3_Witness ==
    /\ fn = "validateFieldValue" /\ arg = Null
    /\ "valid" \in DOMAIN out /\ ~out.valid /\ "error" \in DOMAIN out

\* the argument has a type the validator does not accept
WrongTyped(name, v) ==
    CASE name \in StringValidatorNames -> v.t # "string"
      [] name = "validateTimestamp" ->
            v.k \notin {"date", "invaliddate"} /\ v.t \notin {"number", "string"}
      [] name = "validateFieldValue" -> v.t \notin {"string", "number", "boolean"}
      [] OTHER -> FALSE

\* C4: a validator never raises; for every input, null, undefined and values
\* of the wrong type included, it returns a result, and a wrong-typed argument
\* gives valid = false
C4_ValidatorsNeverThrow ==
    fn \in ValidatorNames
    => /\ "threw" \notin DOMAIN out
       /\ "valid" \in DOMAIN out
       /\ WrongTyped(fn, arg) => ~out.valid

C4_Witness ==
    /\ fn = "validateKeyName" /\ arg = Num(5)
    /\ "valid" \in DOMAIN out /\ ~out.valid

OverNameAlphabet(x) == \A j \in 1..Len(x) : x[j] \in NameAlphabet
AllowedNameChars == {"a", "Z", "7", "_", "-"}
MatchesNameRule(x) == x # <<>> /\ \A j \in 1..Len(x) : x[j] \in AllowedNameChars

\* C5: validateMeasurementName accepts a string exactly when it is non-empty
\* and every character is a letter, a digit, '_' or '-'; a string with a
\* space, '@' or '.' is rejected with a non-empty error; a leading underscore
\* is permitted
C5_MeasurementNameRule ==
    (fn = "validateMeasurementName" /\ arg.t = "string" /\ OverNameAlphabet(arg.s))
    => /\ "valid" \in DOMAIN out
       /\ out.valid = MatchesNameRule(arg.s)
       /\ (\E j \in 1..Len(arg.s) : arg.s[j] \in {" ", "@", "."})
            => ~out.valid /\ out.error # ""

C5_Witness ==
    /\ fn = "validateMeasurementName" /\ arg = Str(<<"_", "a", "@">>)
    /\ "valid" \in DOMAIN out /\ ~out.valid

\* C6: on every string, validateKeyName accepts what validateMeasurementName
\* accepts and does not start with '_', and validateBucketName accepts what
\* validateMeasurementName accepts and is at most 255 characters long
C6_NameValidatorsDifferByException ==
    arg.t = "string"
    => /\ fn = "validateKeyName"
            => out.valid = (validateMeasurementName(arg).valid /\ ~startsWith(arg.s, "_"))
       /\ fn = "validateBucketName"
            => out.valid = (validateMeasurementName(arg).valid /\ Len(arg.s) <= 255)

C6_Witness ==
    /\ fn = "validateBucketName" /\ arg = Str(Repeat("a", 256))
    /\ ~out.valid /\ validateMeasurementName(arg).valid
    /\ validateKeyName(arg).valid

ClaimDigit(c) == CASE c = "0" -> 0 [] c = "1" -> 1 [] c = "2" -> 2 [] c = "3" -> 3
                   [] c = "4" -> 4 [] c = "5" -> 5 [] c = "6" -> 6 [] c = "7" -> 7
                   [] c = "8" -> 8 [] c = "9" -> 9
ClaimDigits == {"0", "1", "2", "3", "4", "5", "6", "7", "8", "9"}

\* the decimal integer written by the digits ds, read from the left
RECURSIVE ClaimDecimal(_, _)
ClaimDecimal(ds, acc) ==
    IF ds = <<>> THEN acc ELSE ClaimDecimal(Tail(ds), acc * 10 + ClaimDigit(Head(ds)))

\* one or more decimal digits followed by exactly one character of units
DigitsAndUnit(x, units) ==
    /\ Len(x) >= 2
    /\ \A j \in 1..(Len(x) - 1) : x[j] \in ClaimDigits
    /\ x[Len(x)] \in units

\* C7 as stated: validateRetentionPeriod accepts a string exactly when it is
\* digits followed by one of the letters d, h, m, s, or is the word infinite
\* in any case
C7_Original ==
    (fn = "validateRetentionPeriod" /\ arg.t = "string")
    => out.valid = (\/ DigitsAndUnit(arg.s, {"d", "h", "m", "s"})
                    \/ toLowerCase(arg.s) = InfiniteWord)

\* C7 amended: validateRetentionPeriod accepts a string exactly when it is
\* digits followed by one of the letters d, h, m, s in either case, or is the
\* word infinite in any case
C7_RetentionPeriodRule ==
    (fn = "validateRetentionPeriod" /\ arg.t = "string")
    => out.valid = (\/ DigitsAndUnit(arg.s, {"d", "h", "m", "s", "D", "H", "M", "S"})
                    \/ toLowerCase(arg.s) = InfiniteWord)

C7_Witness ==
    /\ fn = "validateRetentionPeriod" /\ arg = Str(<<"3", "0", "D">>)
    /\ out.valid

\* C8: a retention period in years is accepted: validateRetentionPeriod('1y')
\* is valid and parseRetentionPeriod('1y') returns 31536000
C8_YearsAccepted ==
    arg = Str(<<"1", "y">>)
    => /\ fn = "validateRetentionPeriod" => out.valid
       /\ fn = "parseRetentionPeriod" => "value" \in DOMAIN out /\ out.value = 31536000

ClaimUnitSeconds(u) == CASE u = "s" -> 1 [] u = "m" -> 60 [] u = "h" -> 3600 [] u = "d" -> 86400

WritesNumber(x, q) ==
    /\ x # <<>>
    /\ \A j \in 1..Len(x) : x[j] \in ClaimDigits
    /\ Len(x) > 1 => x[1] # "0"
    /\ ClaimDecimal(x, 0) = q

\* C10: formatRetentionPeriod(seconds) is 'infinite' for 0 and otherwise the
\* exact quotient followed by the largest of d, h, m that divides seconds
\* evenly, or the raw count followed by s when none divides
C10_FormatRetentionPeriod ==
    fn = "formatRetentionPeriod"
    => LET seconds == arg.n
           text == out.value
           unit == IF seconds % 86400 = 0 THEN "d"
                   ELSE IF seconds % 3600 = 0 THEN "h"
                   ELSE IF seconds % 60 = 0 THEN "m" ELSE "s"
       IN IF seconds = 0 THEN text = <<"i","n","f","i","n","i","t","e">>
          ELSE /\ Len(text) >= 2
               /\ text[Len(text)] = unit
               /\ WritesNumber(SubSeq(text, 1, Len(text) - 1),
                               seconds \div ClaimUnitSeconds(unit))

C10_Witness ==
    /\ fn = "formatRetentionPeriod" /\ arg = Num(86400)
    /\ out.value = <<"1", "d">>

\* C11: for every non-negative integer seconds, parsing the text that
\* formatRetentionPeriod(seconds) returns gives seconds back without raising,
\* and 0 is written as the word infinite
C11_RetentionRoundTrip ==
    fn = "formatRetentionPeriod"
    => /\ parseRetentionPeriod(Str(out.value)) = Returned(arg.n)
       /\ arg.n = 0 => out.value = InfiniteWord

C11_Witness ==
    /\ fn = "formatRetentionPeriod" /\ arg = Num(0)
    /\ out.value = InfiniteWord
    /\ parseRetentionPeriod(Str(out.value)) = Returned(0)

\* the number of occurrences of the character c in the text x
Occurrences(x, c) == Cardinality({j \in DOMAIN x : x[j] = c})

Blank(x) == \A j \in 1..Len(x) : x[j] \in {" ", "\t", "\n", "\r"}

C19_FixtureQueriesRejected ==
    (fn = "validateFluxQuery" /\ arg.t = "string" /\ arg.s \in invalidQueries)
    => ~out.valid

----------------------------------------------------------------------------
(* Properties of the timestamp and query-result formatters (SpecFormatters) *)

\* the call of formatFluxResults returned
FluxResultsReturned == fn = "formatFluxResults" /\ "value" \in DOMAIN out

\* the format that options ask for
RequestedFormat ==
    IF options.timestampFormat.t = "string" THEN options.timestampFormat.s ELSE IsoFormat

\* the number of rows the limit of options lets through
RowsKept ==
    IF options.limit.k = "finite" /\ options.limit.n > 0 /\ options.limit.n < Len(results)
    THEN options.limit.n ELSE Len(results)

\* C12: formatFluxResults returns the mapped rows in the order of the input;
\* a positive limit n keeps exactly the first min(n, length) of them, and a
\* limit that is zero, absent or negative keeps them all
C12_LimitKeepsFirstRows ==
    FluxResultsReturned
    => /\ Len(out.value) = RowsKept
       /\ \A j \in 1..RowsKept : out.value[j] = FormatRow(results[j], RequestedFormat)
       /\ results = <<>> => out.value = <<>>

C12_Witness ==
    /\ FluxResultsReturned
    /\ Len(results) = 2 /\ options.limit = Num(1)
    /\ DOMAIN results[1] # DOMAIN results[2]
    /\ out.value = <<FormatRow(results[1], RequestedFormat)>>

\* C13: the keys of a returned row are the keys of its input row without
\* table and result; every key other than _time keeps its input value; the
\* returned row has _time exactly when the input row has it
C13_RowKeysAndValuesKept ==
    FluxResultsReturned
    => \A j \in 1..Len(out.value) :
          /\ DOMAIN out.value[j] = DOMAIN results[j] \ {"table", "result"}
          /\ \A key \in DOMAIN out.value[j] \ {"_time"} : out.value[j][key] = results[j][key]
          /\ "_time" \in DOMAIN out.value[j] <=> "_time" \in DOMAIN results[j]

C13_Witness ==
    /\ FluxResultsReturned
    /\ Len(out.value) >= 1
    /\ DOMAIN results[1] = RowKeys
    /\ DOMAIN out.value[1] = {"_time", "_measurement", "_field", "_value", "location"}
    /\ out.value[1]["location"] = Str(<<"o">>)

\* C14: for a row that carries a _time value, the _time of the returned row is
\* formatTimestamp(row._time, f): an ISO-8601 string for iso, the integer
\* milliseconds since the epoch for unix, the relative phrase for relative
C14_TimeIsFormattedTimestamp ==
    FluxResultsReturned
    => \A j \in 1..Len(out.value) :
          ("_time" \in DOMAIN results[j] /\ ~Falsy(results[j]["_time"]))
          => out.value[j]["_time"] = formatTimestamp(results[j]["_time"], RequestedFormat).value

\* new Date(v) of the string v is an invalid Date
UnparseableString(v) == v.t = "string" /\ NewDate(v.s) = InvalidDate

\* C15: no formatter raises: formatTimestamp returns a value for an
\* unparseable timestamp string in each format, and formatFluxResults returns
\* rows when the _time of a row is an unparseable string
C15_FormattersNeverRaise ==
    /\ (fn = "formatTimestamp" /\ UnparseableString(arg)) => "value" \in DOMAIN out
    /\ (/\ fn = "formatFluxResults"
        /\ \A j \in 1..Len(results) :
              "_time" \in DOMAIN results[j] => results[j]["_time"].t = "string")
       => "value" \in DOMAIN out
    /\ fn = "getRelativeTime" => "value" \in DOMAIN out

\* the phrase for a distance of d >= 1000 milliseconds: the floor quotient n
\* of the largest unit that has one, the unit in the plural unless n is 1
DistancePhrase(d) ==
    LET unit == IF d \div MsPerDay > 0 THEN <<MsPerDay, DayWord>>
                ELSE IF d \div MsPerHour > 0 THEN <<MsPerHour, HourWord>>
                ELSE IF d \div MsPerMinute > 0 THEN <<MsPerMinute, MinuteWord>>
                ELSE <<MsPerSecond, SecondWord>>
        n == d \div unit[1]
    IN NumberToString(n) \o <<" ">> \o unit[2] \o (IF n # 1 THEN <<"s">> ELSE <<>>)

\* C16: for a date d >= 0 milliseconds before now, getRelativeTime is 'just
\* now' when d < 1000 and otherwise 'N unit(s) ago' for the largest unit among
\* day, hour, minute, second with a non-zero floor quotient N
C16_PastRelativeTime ==
    (fn = "getRelativeTime" /\ arg.k = "date" /\ arg.n <= now)
    => out.value.s = IF now - arg.n < MsPerSecond THEN JustNow
                     ELSE DistancePhrase(now - arg.n) \o <<" ", "a", "g", "o">>

C16_Witness ==
    /\ fn = "getRelativeTime" /\ arg = DateValue(now - 2 * MsPerHour)
    /\ out.value.s = <<"2", " ", "h", "o", "u", "r", "s", " ", "a", "g", "o">>

\* C17: for a date d > 0 milliseconds after now, getRelativeTime renders the
\* unit and magnitude it selects for now - d with the prefix 'in ', and 'just
\* now' when d is less than one second
C17_FutureRelativeTime ==
    (fn = "getRelativeTime" /\ arg.k = "date" /\ arg.n > now)
    => out.value.s = IF arg.n - now < MsPerSecond THEN JustNow
                     ELSE <<"i", "n", " ">> \o DistancePhrase(arg.n - now)

----------------------------------------------------------------------------
(* Properties of execute and its operations (Spec) *)

\* the requests issued for the item processed last
LastRequests == {j \in 1..Len(requests) : requests[j].item = itemIndex - 1}

\* processing the last item raised: an error item under continueOnFail, an
\* error out of execute otherwise
LastItemRaised ==
    IF continueOnFail
    THEN /\ returnData # <<>>
         /\ returnData[Len(returnData)].pairedItem = itemIndex - 1
         /\ "error" \in DOMAIN returnData[Len(returnData)].json
    ELSE pc = "threw" /\ thrown # ""

BucketOfWrite(p) ==
    OrElse(OrElse(getNodeParameter(p.bucket, Str(<<>>)), credentials.defaultBucket), Str(<<>>))

BadTimeRange(p) == Falsy(p.start) \/ Falsy(p.stop)

\* some validation of the parameters p of an item of the running operation fails
ValidationFails(p) ==
    CASE Routed("write", "writePoint") ->
            \/ ~validateBucketName(BucketOfWrite(p)).valid
            \/ ~validateMeasurementName(p.measurement).valid
            \/ \E j \in 1..Len(p.tags) :
                  \/ ~validateKeyName(Str(p.tags[j].key)).valid
                  \/ p.tags[j].value.t # "string"
            \/ p.fields = <<>>
            \/ \E j \in 1..Len(p.fields) :
                  \/ ~validateKeyName(Str(p.fields[j].key)).valid
                  \/ ~validateFieldValue(p.fields[j].value).valid
            \/ p.timestamp # Undefined /\ ~validateTimestamp(p.timestamp, p.parses).valid
      [] Routed("write", "writeBatch") ->
            \/ ~validateBucketName(BucketOfWrite(p)).valid
            \/ ~p.points.isArray \/ p.points.elems = <<>>
            \/ \E j \in 1..Len(p.points.elems) :
                  \/ ~validateMeasurementName(p.points.elems[j].measurement).valid
                  \/ p.points.elems[j].fields = <<>>
      [] Routed("write", "writeLineProtocol") ->
            \/ ~validateBucketName(BucketOfWrite(p)).valid
            \/ p.lineProtocol.t # "string" \/ trim(p.lineProtocol.s) = <<>>
      [] Routed("query", "fluxQuery") -> ~validateFluxQuery(p.query).valid
      [] Routed("query", "simpleQuery") ->
            \/ ~validateBucketName(p.bucket).valid
            \/ ~validateMeasurementName(p.measurement).valid
      [] Routed("delete", "deleteByPredicate") ->
            \/ ~validateBucketName(p.bucket).valid
            \/ BadTimeRange(p)
            \/ p.predicate.t # "string" \/ trim(p.predicate.s) = <<>>
      [] Routed("delete", "deleteAll") ->
            \/ Falsy(getNodeParameter(p.confirm, Bool(FALSE)))
            \/ ~validateBucketName(p.bucket).valid
            \/ BadTimeRange(p)
      [] Routed("bucket", "get") -> ~validateBucketName(p.bucketName).valid
      [] Routed("bucket", "create") ->
            \/ ~validateBucketName(p.bucketName).valid
            \/ ~validateRetentionPeriod(
                   getNodeParameter(p.retentionPeriod, Str(<<"3", "0", "d">>))).valid
      [] Routed("bucket", "update") ->
            \/ ~validateBucketName(p.bucketName).valid
            \/ /\ ~Falsy(getNodeParameter(p.retentionPeriod, Str(<<>>)))
               /\ ~validateRetentionPeriod(p.retentionPeriod).valid
      [] Routed("bucket", "delete") ->
            \/ Falsy(getNodeParameter(p.confirm, Bool(FALSE)))
            \/ ~validateBucketName(p.bucketName).valid
      [] OTHER -> FALSE

\* C1: for every operation and every item, if a validation of the item's
\* parameters fails then no request was issued to the external service for
\* that item
C1_NoRequestAfterFailedValidation ==
    (itemIndex > 0 /\ ValidationFails(params)) => LastRequests = {}

Destructive ==
    \/ Routed("delete", "deleteAll")
    \/ Routed("bucket", "delete")
    \/ Routed("organization", "delete")

DeleteEndpoints == {"postDelete", "deleteBucketsID", "deleteOrgsID"}

\* C2: a destructive operation whose confirm parameter is false or absent
\* raises an error and issues no request at all; the delete endpoint is
\* called only when confirm is true
C2_ConfirmationRequired ==
    (itemIndex > 0 /\ Destructive)
    => /\ Falsy(getNodeParameter(params.confirm, Bool(FALSE)))
            => LastItemRaised /\ LastRequests = {}
       /\ (\E j \in LastRequests : requests[j].request.api \in DeleteEndpoints)
            => params.confirm = Bool(TRUE)

C2_Witness ==
    /\ itemIndex > 0 /\ Routed("bucket", "delete")
    /\ params.confirm = Undefined
    /\ validateBucketName(params.bucketName).valid
    /\ LastItemRaised /\ LastRequests = {}


\* the error that processing the last item raised
LastError ==
    IF continueOnFail THEN returnData[Len(returnData)].json.error ELSE thrown

\* the timestamp parameter is left out or left at its default, the empty string
TimestampUnspecified(p) == p.timestamp = Undefined \/ p.timestamp = Str(<<>>)

\* every input of Write Point other than the timestamp is valid
OtherInputsValid(p) ==
    /\ validateBucketName(BucketOfWrite(p)).valid
    /\ validateMeasurementName(p.measurement).valid
    /\ \A j \in 1..Len(p.tags) :
          validateKeyName(Str(p.tags[j].key)).valid /\ p.tags[j].value.t = "string"
    /\ p.fields # <<>>
    /\ \A j \in 1..Len(p.fields) :
          /\ validateKeyName(Str(p.fields[j].key)).valid
          /\ validateFieldValue(p.fields[j].value).valid

\* C20: the timestamp of Write Point is optional: when it is absent or left at
\* the empty string and the other inputs are valid, the point is sent without
\* an explicit timestamp, the only error possible is the service's, and the
\* result reports the current time
C20_TimestampOptional ==
    (/\ itemIndex > 0 /\ Routed("write", "writePoint")
     /\ TimestampUnspecified(params) /\ OtherInputsValid(params))
    => /\ LastRequests # {}
       /\ \A j \in LastRequests :
             \A h \in 1..Len(requests[j].request.payload) :
                requests[j].request.payload[h].timestamp = Undefined
       /\ LastItemRaised => LastError = "Failed to write point to InfluxDB"
       /\ ~LastItemRaised => returnData[Len(returnData)].json.timestamp = NowIso


\* the running operation is one of the three write operations
WriteOperation ==
    \/ Routed("write", "writePoint")
    \/ Routed("write", "writeBatch")
    \/ Routed("write", "writeLineProtocol")

\* the operation of the last item was called: execute did not raise while it
\* converted the collections of Write Point
OperationCalled ==
    itemIndex > 0 /\ ~(LastItemRaised /\ LastError = "TypeError: collection is not iterable")

NonEmptyString(v) == v.t = "string" /\ v.s # <<>>

BucketRequired ==
    "Bucket name is required. Provide it as a parameter or set a default bucket in credentials."

\* C21: a write operation writes to the bucket parameter when it is not empty
\* and to the default bucket of the credentials otherwise; when both are empty
\* it raises 'Bucket name is required' and issues no request; a bucket from
\* either source that fails validateBucketName is never written to
C21_BucketResolution ==
    (WriteOperation /\ OperationCalled)
    => LET fromParameter == NonEmptyString(params.bucket)
           fromCredentials == ~fromParameter /\ NonEmptyString(credentials.defaultBucket)
           bucket == IF fromParameter THEN params.bucket ELSE credentials.defaultBucket
       IN /\ (LastItemRaised /\ LastError = BucketRequired)
                <=> (~fromParameter /\ ~fromCredentials)
          /\ (~fromParameter /\ ~fromCredentials) => LastRequests = {}
          /\ \A j \in LastRequests :
                /\ requests[j].request.target = bucket.s
                /\ validateBucketName(bucket).valid

C21_Witness ==
    /\ Routed("write", "writeLineProtocol") /\ OperationCalled
    /\ params.bucket = Str(<<>>) /\ credentials.defaultBucket = Str(<<"d">>)
    /\ ~LastItemRaised
    /\ \E j \in LastRequests : requests[j].request.target = <<"d">>


\* the characters that end a Flux string literal or a call, or start a pipe
FluxSyntax == {"\"", "(", ")", "|"}

\* the parameters of Simple Query that the user supplied for the last item
SuppliedQueryParameters ==
    {f \in {"bucket", "measurement", "start", "stop", "field"} : params[f].t = "string"}

\* the values interpolated into the Flux text of request j
Interpolated(j) ==
    {requests[j].request.payload[h].val : h \in DOMAIN requests[j].request.payload}

\* C22: no query is sent by Simple Query with a user-supplied bucket,
\* measurement, start, stop or field interpolated into its text that contains
\* a double quote, a parenthesis or a pipe
C22_NoInjection ==
    (Routed("query", "simpleQuery") /\ itemIndex > 0)
    => \A j \in LastRequests : \A f \in SuppliedQueryParameters :
          (params[f].s \in Interpolated(j))
          => \A h \in DOMAIN params[f].s : params[f].s[h] \notin FluxSyntax


IsErrorItem(d) == "error" \in DOMAIN d.json

\* the output items pushed by the step
PushedItems == SubSeq(returnData', Len(returnData) + 1, Len(returnData'))

\* C23: errors are handled per item: a failing item i under continueOnFail
\* adds exactly one item {json: {error}, pairedItem: i} to the output and
\* leaves the loop running for the next item; without continueOnFail the
\* first error ends execute, which then never returns an output
C23_PerItemErrors ==
    [][/\ (pc = "loop" /\ itemIndex' = itemIndex + 1)
          => \/ /\ pc' = "loop" /\ thrown' = thrown
                /\ Len(returnData') >= Len(returnData)
                /\ SubSeq(returnData', 1, Len(returnData)) = returnData
                /\ \A j \in DOMAIN PushedItems : PushedItems[j].pairedItem = itemIndex
                /\ (\E j \in DOMAIN PushedItems : IsErrorItem(PushedItems[j]))
                      => continueOnFail /\ Len(PushedItems) = 1
                /\ ValidationFails(params')
                      => PushedItems # <<>> /\ IsErrorItem(PushedItems[1])
             \/ /\ ~continueOnFail
                /\ pc' = "threw" /\ thrown' # ""
                /\ returnData' = returnData
       /\ pc = "threw" => pc' = "threw"
       /\ continueOnFail => pc' # "threw"]_vars

C23_Witness ==
    /\ continueOnFail /\ pc = "returned" /\ itemIndex = 2
    /\ Len(returnData) >= 2
    /\ IsErrorItem(returnData[1]) /\ returnData[1].pairedItem = 0
    /\ \A j \in 2..Len(returnData) :
          ~IsErrorItem(returnData[j]) /\ returnData[j].pairedItem = 1


\* C24: after every processed Write Point item, whether executeWritePoint
\* returned or raised, no override of 'tags' and 'fields' is left installed
\* on the execution context when the loop goes on to the next item
C24_OverrideRestored ==
    (Routed("write", "writePoint") /\ itemIndex > 0 /\ pc = "loop") => patched = <<>>


\* the parameters of the last Write Point item with the tags and fields of
\* its own collections, as execute converts them for an item processed alone
OwnParams ==
    [params EXCEPT !.tags = ConvertTags(params.tagsCollection, <<>>),
                   !.fields = ConvertFields(params.fieldsCollection, <<>>)]

\* C25: under continueOnFail a Write Point item whose own parameters pass
\* every validation is written with its own tags and fields, whatever
\* happened to the items before it
C25_ItemsIndependent ==
    (/\ Routed("write", "writePoint") /\ continueOnFail /\ itemIndex > 0
     /\ ~ValidationFails(OwnParams))
    => /\ LastRequests # {}
       /\ \A j \in LastRequests :
             \A h \in DOMAIN requests[j].request.payload :
                /\ requests[j].request.payload[h].tags = OwnParams.tags
                /\ requests[j].request.payload[h].fields = OwnParams.fields


\* the points of the last Write Batch item
BatchPoints == params.points.elems

\* point k is the one executeWriteBatch raises for: its measurement name is
\* invalid or it has no fields, and no point before it ended the loop
RaisesForPoint(k) ==
    /\ \/ ~validateMeasurementName(BatchPoints[k].measurement).valid
       \/ BatchPoints[k].fields = <<>>
    /\ \A h \in 1..(k - 1) :
          /\ validateMeasurementName(BatchPoints[h].measurement).valid
          /\ BatchPoints[h].fields # <<>>
          /\ \A e \in DOMAIN BatchPoints[h].fields :
                ~FieldSetterThrows(BatchPoints[h].fields[e])

\* C26: Write Batch is all-or-nothing: when it raises for a point with an
\* invalid measurement name or no fields, no write request was issued for the
\* batch, and when it succeeds pointsWritten is the number of points given
C26_AllOrNothing ==
    (/\ Routed("write", "writeBatch") /\ itemIndex > 0
     /\ validateBucketName(BucketOfWrite(params)).valid
     /\ params.points.isArray)
    => /\ (\E k \in DOMAIN BatchPoints : RaisesForPoint(k))
             => LastItemRaised /\ LastRequests = {}
       /\ (BatchPoints # <<>> /\ ~LastItemRaised)
             => /\ returnData # <<>>
                /\ returnData[Len(returnData)].pairedItem = itemIndex - 1
                /\ returnData[Len(returnData)].json.pointsWritten = Len(BatchPoints)


\* the checks executeWritePoint makes on a point's tags, fields and timestamp
RejectedByWritePoint(point) ==
    \/ \E j \in 1..Len(point.tags) : TagInvalid(point.tags[j])
    \/ \E j \in 1..Len(point.fields) : FieldInvalid(point.fields[j])
    \/ /\ point.timestamp # Undefined
       /\ \A parses \in DateParseOutcomes(point.timestamp.s) :
             ~validateTimestamp(point.timestamp, parses).valid

\* C27: a point that executeWritePoint would reject for its tags, fields or
\* timestamp makes Write Batch raise and is never part of a write request
C27_BatchAsStrict ==
    (/\ Routed("write", "writeBatch") /\ itemIndex > 0
     /\ validateBucketName(BucketOfWrite(params)).valid
     /\ params.points.isArray)
    => \A k \in DOMAIN BatchPoints :
          RejectedByWritePoint(BatchPoints[k])
          => /\ LastItemRaised
             /\ \A j \in LastRequests :
                   \A h \in DOMAIN requests[j].request.payload :
                      requests[j].request.payload[h].fields # BatchPoints[k].fields

====
